---- MODULE Spec2Model ----
(***************************************************************************)
(* Help2Earn verification-and-reward pipeline.                             *)
(*                                                                         *)
(* Two orchestrators of the same five steps are modelled:                  *)
(*   - Help2EarnAgent.process_upload (agent/help2earn_agent.py), which     *)
(*     main.py serves; several calls may be in flight at once, each        *)
(*     suspended at one of its awaits;                                     *)
(*   - Help2EarnSpoonAgent.process_upload (agent/spoon_agent.py), the      *)
(*     manual step loop around Help2EarnReactAgent._get_next_tool_call;    *)
(*     here the calls on the one agent instance follow each other.         *)
(* The variable pipeline says which orchestrator a behaviour runs.         *)
(*                                                                         *)
(* Python values are modelled as strings (ids, hashes, urls, JSON text),   *)
(* the Python None as the string "None"; time is counted in hours.         *)
(* Positions lie on one meridian and are given in metres, so that the      *)
(* mock store's planar distance and PostGIS' ST_Distance agree.            *)
(***************************************************************************)
EXTENDS Integers, Sequences, FiniteSets, TLC

VARIABLES
    pipeline,        \* "direct" (Help2EarnAgent) or "react" (Help2EarnSpoonAgent)
    mock_database,   \* MOCK_DATABASE, read once from the environment
    now,             \* wall clock, in hours
    facilities,      \* table facilities / MOCK_DATA["facilities"]
    rewards,         \* table rewards / MOCK_DATA["rewards"]
    chain,           \* token transfers confirmed on chain
    submitted,       \* number of process_upload calls made so far
    run,             \* the call frames of process_upload
    ctx,             \* spoon_agent._current_upload_context
    completed_tools, \* Help2EarnReactAgent._completed_tools (names)
    tool_results,    \* Help2EarnReactAgent._tool_results
    agent_state,     \* Help2EarnReactAgent.state
    probe            \* the last call made of a function outside a pipeline run

vars == <<pipeline, mock_database, now, facilities, rewards, chain, submitted,
          run, ctx, completed_tools, tool_results, agent_state, probe>>

-----------------------------------------------------------------------------
(* Bounds of the model *)

MaxSubmissions == 2

\* The uploads a caller may make: position (metres), wallet, pre-uploaded image
Submissions ==
    { [lat |-> 0, wallet |-> "0xA", image_url |-> "gcs://img"],
      [lat |-> 50, wallet |-> "0xB", image_url |-> "None"],
      [lat |-> 51, wallet |-> "0xA", image_url |-> "None"] }

\* Facility types the classifier answers with
ClassifiedTypes == {"ramp", "toilet"}

\* The clock readings of a behaviour, in hours: 359 h is 14 days, 360 h is 15
TimePoints == {0, 359, 360}

\* The stores check_fraud and check_existing are called on outside a run: up to
\* MaxStored facilities at these positions, last updated at these hours, and the
\* positions and clock readings of the calls. 50 and 90 are 50 m from a stored
\* position; 359 h and 360 h after hour 0 are 14 and 15 days.
MaxStored == 2
StoredPositions == {0, 40}
StoredUpdates == {0, 1}
ProbePositions == {50, 90, 91}
ProbeTimes == {359, 360, 361}

-----------------------------------------------------------------------------
(* Program constants *)

None == "None"

DUPLICATE_RADIUS_METERS == 50
DUPLICATE_WINDOW_DAYS == 15
NEW_FACILITY_REWARD == 50
UPDATE_FACILITY_REWARD == 25
DefaultRewardAmount == 50
MaxSteps == 15
MOCK_BLOCKCHAIN == FALSE

FACILITY_TYPES == {"ramp", "toilet", "elevator", "wheelchair"}

ZeroHash == "0x0000"

\* uuid.uuid4() of the rows, in the order of their insertion
FacilityIds ==
    <<"f1", "f2", "f3", "f4", "f5", "f6", "f7", "f8", "f9", "f10", "f11",
      "f12", "f13", "f14", "f15", "f16", "f17", "f18", "f19", "f20", "f21",
      "f22", "f23", "f24", "f25", "f26", "f27", "f28", "f29", "f30", "f31",
      "f32", "f33", "f34", "f35", "f36", "f37", "f38", "f39", "f40", "f41",
      "f42", "f43", "f44", "f45", "f46", "f47", "f48", "f49", "f50", "f51",
      "f52", "f53", "f54", "f55", "f56", "f57", "f58", "f59", "f60", "f61",
      "f62", "f63", "f64">>
TxHashes == <<"0xt1", "0xt2", "0xt3", "0xt4">>

WorkflowTools == <<"vision_analyze", "anti_fraud_check", "database_save_facility",
                   "blockchain_reward", "database_save_reward">>

ToolNames == {WorkflowTools[i] : i \in 1..Len(WorkflowTools)}

-----------------------------------------------------------------------------
(* Small helpers *)

EmptyContext == [lat |-> 0, wallet |-> "None", image_url |-> "None", set |-> FALSE]

NoToolResults == [n \in ToolNames |-> [present |-> FALSE]]

NoProbe == [op |-> "None"]

Abs(x) == IF x < 0 THEN -x ELSE x

Truthy(v) == v # None /\ v # ""

OrElse(v, d) == IF Truthy(v) THEN v ELSE d

-----------------------------------------------------------------------------
(* skills/vision/skill.py *)

\* What the Gemini call and the parsing of its answer can yield for one image.
VisionOutcomes ==
    [kind : {"valid"}, type : ClassifiedTypes]
        \cup [kind : {"invalid", "unknown_type", "bad_json", "error"}, type : {None}]

\* analyze_image: the dict returned for each outcome. A service error and an
\* unparsable answer are caught and returned as is_valid = False.
analyze_image(o) ==
    CASE o.kind = "valid" ->
            [is_valid |-> TRUE, facility_type |-> o.type,
             condition |-> "facility in good condition"]
      [] o.kind = "invalid" ->
            [is_valid |-> FALSE, facility_type |-> None,
             condition |-> "image shows no accessibility facility"]
      [] o.kind = "unknown_type" ->
            [is_valid |-> FALSE, facility_type |-> None,
             condition |-> "Unrecognized facility type"]
      [] o.kind = "bad_json" ->
            [is_valid |-> FALSE, facility_type |-> None,
             condition |-> "Analysis failed - invalid response format"]
      [] OTHER ->
            [is_valid |-> FALSE, facility_type |-> None,
             condition |-> "Analysis error: service unavailable"]

NoVision == [is_valid |-> FALSE, facility_type |-> None, condition |-> None]

\* The attempts of the retry loop of analyze_image
max_retries == 3

\* How many answers "429 / resource exhausted / quota" the service is taken to
\* give in a row before it answers otherwise
MaxRateLimited == 3

\* The calls of model.generate_content the loop makes when the service answers
\* `limited` times in a row with a rate limit: one more than the rate limits,
\* and never more than max_retries
GenerateAttempts(limited) ==
    IF limited < max_retries THEN limited + 1 ELSE max_retries

\* What the loop leaves analyze_image with: the answer o of the service, or the
\* rate limit of the last attempt, raised again and caught as any other error
Answered(o, limited) ==
    IF limited < max_retries THEN o ELSE [kind |-> "error", type |-> None]

\* json.dumps of the vision result, resp. of its details
JsonDumps(v) ==
    CASE v.facility_type = "ramp" -> "{vision: ramp}"
      [] v.facility_type = "toilet" -> "{vision: toilet}"
      [] v.facility_type = "elevator" -> "{vision: elevator}"
      [] v.facility_type = "wheelchair" -> "{vision: wheelchair}"
      [] OTHER -> "{vision: null}"

JsonDumpsDetails(v) ==
    CASE v.facility_type = "ramp" -> "{details: ramp}"
      [] v.facility_type = "toilet" -> "{details: toilet}"
      [] v.facility_type = "elevator" -> "{details: elevator}"
      [] v.facility_type = "wheelchair" -> "{details: wheelchair}"
      [] OTHER -> "{}"

-----------------------------------------------------------------------------
(* skills/anti_fraud/skill.py *)

\* dist = ((dlat)**2 + (dlng)**2)**0.5 * 111000, resp. ST_Distance, in metres
Distance(a, b) == Abs(a - b)

\* An age in days that counts a started day as a whole one
DaysSince_rounded_up(t, updated_at) == (t - updated_at + 23) \div 24

\* (datetime.now() - updated_at).days, EXTRACT(DAY FROM NOW() - updated_at)
DaysSince(t, updated_at) == (t - updated_at) \div 24

FraudCheckResult(is_fraud, reward_amount, reason, existing_facility_id) ==
    [is_fraud |-> is_fraud, reward_amount |-> reward_amount, reason |-> reason,
     existing_facility_id |-> existing_facility_id]

NoFraud == FraudCheckResult(FALSE, 0, None, None)

\* A radius search that leaves the facility type out
WithinRadius_any_type(facs, lat, type) ==
    {i \in 1..Len(facs) : Distance(facs[i].latitude, lat) <= DUPLICATE_RADIUS_METERS}

WithinRadius(facs, lat, type) ==
    {i \in 1..Len(facs) : /\ facs[i].type = type
                          /\ Distance(facs[i].latitude, lat) <= DUPLICATE_RADIUS_METERS}

\* The row the lookup of check_fraud can come back with: 0 is no row, -1 a failed
\* query. The mock store takes the first stored match; the SQL query orders by
\* distance and takes one row, any of the nearest when several are equally near.
FraudLookups(facs, mock, lat, type) ==
    LET near == WithinRadius(facs, lat, type)
        first == {i \in near : \A j \in near : i <= j}
        nearest == {i \in near : \A j \in near :
                        Distance(facs[i].latitude, lat) <= Distance(facs[j].latitude, lat)}
    IN  IF mock THEN (IF near = {} THEN {0} ELSE first)
        ELSE (IF near = {} THEN {0} ELSE nearest) \cup {-1}

\* A check_fraud whose except clause rejects the submission
check_fraud_fail_closed(facs, t, row) ==
    IF row = -1 THEN FraudCheckResult(TRUE, 0, "check_failed", None)
    ELSE IF row = 0 THEN FraudCheckResult(FALSE, NEW_FACILITY_REWARD, "new_facility", None)
    ELSE IF DaysSince(t, facs[row].updated_at) < DUPLICATE_WINDOW_DAYS
         THEN FraudCheckResult(TRUE, 0, "duplicate_within_15_days", facs[row].id)
         ELSE FraudCheckResult(FALSE, UPDATE_FACILITY_REWARD, "facility_update", facs[row].id)

\* A check_fraud whose window includes its last day
check_fraud_window_inclusive(facs, t, row) ==
    IF row = -1 THEN FraudCheckResult(FALSE, NEW_FACILITY_REWARD, "check_failed_default_new", None)
    ELSE IF row = 0 THEN FraudCheckResult(FALSE, NEW_FACILITY_REWARD, "new_facility", None)
    ELSE IF DaysSince(t, facs[row].updated_at) <= DUPLICATE_WINDOW_DAYS
         THEN FraudCheckResult(TRUE, 0, "duplicate_within_15_days", facs[row].id)
         ELSE FraudCheckResult(FALSE, UPDATE_FACILITY_REWARD, "facility_update", facs[row].id)

check_fraud(facs, t, row) ==
    IF row = -1 THEN FraudCheckResult(FALSE, NEW_FACILITY_REWARD, "check_failed_default_new", None)
    ELSE IF row = 0 THEN FraudCheckResult(FALSE, NEW_FACILITY_REWARD, "new_facility", None)
    ELSE IF DaysSince(t, facs[row].updated_at) < DUPLICATE_WINDOW_DAYS
         THEN FraudCheckResult(TRUE, 0, "duplicate_within_15_days", facs[row].id)
         ELSE FraudCheckResult(FALSE, UPDATE_FACILITY_REWARD, "facility_update", facs[row].id)

-----------------------------------------------------------------------------
(* skills/database/skill.py *)

\* Whether a statement sent to the store can fail: the in-memory mock cannot.
DbOutcomes(mock) == IF mock THEN {TRUE} ELSE {TRUE, FALSE}

NewFacilityId(facs) == FacilityIds[Len(facs) + 1]

\* An insert under a uniqueness constraint on type and position
save_facility_unique(facs, t, data, sid) ==
    IF \E i \in 1..Len(facs) : facs[i].type = data.type /\ facs[i].latitude = data.latitude
    THEN facs
    ELSE Append(facs, [id |-> NewFacilityId(facs), type |-> data.type,
                       latitude |-> data.latitude, image_url |-> data.image_url,
                       ai_analysis |-> data.ai_analysis,
                       contributor_address |-> data.contributor_address,
                       created_at |-> t, updated_at |-> t, sid |-> sid])

\* save_facility: INSERT INTO facilities, created_at = updated_at = NOW()
save_facility(facs, t, data, sid) ==
    Append(facs, [id |-> NewFacilityId(facs), type |-> data.type,
                  latitude |-> data.latitude, image_url |-> data.image_url,
                  ai_analysis |-> data.ai_analysis,
                  contributor_address |-> data.contributor_address,
                  created_at |-> t, updated_at |-> t, sid |-> sid])

\* The values update_facility binds: the id, then the fields that data holds.
UpdateValues(facility_id, data) ==
    <<facility_id>>
        \o (IF data.image_url # None THEN <<data.image_url>> ELSE <<>>)
        \o (IF data.ai_analysis # None THEN <<data.ai_analysis>> ELSE <<>>)

\* MockConnection.execute, "UPDATE facilities": the id is taken to be the last
\* bound value, and only updated_at of the first facility with that id changes.
MockExecuteUpdate(facs, t, args) ==
    LET facility_id == args[Len(args)]
        hit == {i \in 1..Len(facs) : facs[i].id = facility_id}
    IN  IF hit = {} THEN facs
        ELSE LET i == CHOOSE k \in hit : \A j \in hit : k <= j
             IN  [facs EXCEPT ![i].updated_at = t]

\* An UPDATE replaced by a DELETE of the facility
SqlUpdate_deletes(facs, t, facility_id, data) ==
    SelectSeq(facs, LAMBDA f : f.id # facility_id)

\* An UPDATE that sets created_at as well
SqlUpdate_touches_created(facs, t, facility_id, data) ==
    [i \in 1..Len(facs) |->
        IF facs[i].id = facility_id
        THEN [facs[i] EXCEPT
                !.image_url = IF data.image_url # None THEN data.image_url ELSE @,
                !.ai_analysis = IF data.ai_analysis # None THEN data.ai_analysis ELSE @,
                !.created_at = t,
                !.updated_at = t]
        ELSE facs[i]]

\* UPDATE facilities SET image_url, ai_analysis, updated_at = NOW() WHERE id = $1
SqlUpdate(facs, t, facility_id, data) ==
    [i \in 1..Len(facs) |->
        IF facs[i].id = facility_id
        THEN [facs[i] EXCEPT
                !.image_url = IF data.image_url # None THEN data.image_url ELSE @,
                !.ai_analysis = IF data.ai_analysis # None THEN data.ai_analysis ELSE @,
                !.updated_at = t]
        ELSE facs[i]]

\* update_facility: the store after the call; ok = FALSE is a failed statement,
\* which the function swallows (it then returns False)
update_facility(facs, t, mock, facility_id, data, ok) ==
    IF ~ok THEN facs
    ELSE IF mock THEN MockExecuteUpdate(facs, t, UpdateValues(facility_id, data))
    ELSE SqlUpdate(facs, t, facility_id, data)

\* A save_reward that inserts the row twice
save_reward_twice(rews, t, data, sid) ==
    LET row == [wallet_address |-> data.wallet_address, facility_id |-> data.facility_id,
                amount |-> data.amount, tx_hash |-> data.tx_hash,
                created_at |-> t, sid |-> sid]
    IN  Append(Append(rews, row), row)

\* A save_reward that writes over the last record of the ledger
save_reward_overwrites(rews, t, data, sid) ==
    LET row == [wallet_address |-> data.wallet_address, facility_id |-> data.facility_id,
                amount |-> data.amount, tx_hash |-> data.tx_hash,
                created_at |-> t, sid |-> sid]
    IN  IF rews = <<>> THEN <<row>> ELSE [rews EXCEPT ![Len(rews)] = row]

\* save_reward: INSERT INTO rewards
save_reward(rews, t, data, sid) ==
    Append(rews, [wallet_address |-> data.wallet_address, facility_id |-> data.facility_id,
                  amount |-> data.amount, tx_hash |-> data.tx_hash,
                  created_at |-> t, sid |-> sid])

-----------------------------------------------------------------------------
(* skills/blockchain/skill.py *)

\* What one call of send_reward can meet: a client that is not configured or not
\* connected, a confirmed mint, or an error (revert, timeout, RPC failure).
PayOutcomes == {"not_configured", "confirmed", "failed"}

\* send_reward: the value returned, or raised = TRUE
send_reward(ch, outcome) ==
    IF MOCK_BLOCKCHAIN THEN [raised |-> FALSE, tx |-> "0xfake"]
    ELSE IF outcome = "not_configured" THEN [raised |-> FALSE, tx |-> ZeroHash]
    ELSE IF outcome = "confirmed" THEN [raised |-> FALSE, tx |-> TxHashes[Len(ch) + 1]]
    ELSE [raised |-> TRUE, tx |-> None]

\* The chain after the call: tokens move only when the transaction is confirmed.
\* A distributor transaction also records its location hash as verified.
Transfer(ch, outcome, wallet, amount, method, location_hash, sid) ==
    IF ~MOCK_BLOCKCHAIN /\ outcome = "confirmed"
    THEN Append(ch, [tx |-> TxHashes[Len(ch) + 1], wallet |-> wallet, amount |-> amount,
                     method |-> method, location_hash |-> location_hash, sid |-> sid])
    ELSE ch

\* generate_location_hash: keccak of "round(lat, 5):round(lng, 5):type". Rounding
\* to 5 decimals is to about a metre, the unit positions are given in here, and
\* the digest is taken to be free of collisions.
generate_location_hash(lat, type) == <<lat, type>>

\* distributor.functions.verificationRecords(location_hash).call()
Verified(ch, location_hash) ==
    \E k \in 1..Len(ch) :
        ch[k].method = "distributor" /\ ch[k].location_hash = location_hash

-----------------------------------------------------------------------------
(* Call frames of process_upload *)

Runs == 1..MaxSubmissions

\* A returned dict: keys are the keys it holds; the other fields are fillers.
ResultDict(keys, success, facility_id, facility_type, reward_amount, tx_hash, reason) ==
    [keys |-> keys, success |-> success, facility_id |-> facility_id,
     facility_type |-> facility_type, reward_amount |-> reward_amount,
     tx_hash |-> tx_hash, reason |-> reason]

NoResult == ResultDict({}, FALSE, None, None, 0, None, <<None, None>>)

\* {"success": False, "reason": f"{prefix}{detail}"}
FailureResult(prefix, detail) ==
    ResultDict({"success", "reason"}, FALSE, None, None, 0, None, <<prefix, detail>>)

SuccessKeys == {"success", "facility_id", "facility_type", "condition",
                "reward_amount", "tx_hash"}

IdleFrame ==
    [pc |-> "idle", lat |-> 0, wallet |-> None, image_url |-> None,
     vision_result |-> NoVision, fraud_result |-> NoFraud, facility_id |-> None,
     tx_hash |-> None, result |-> NoResult, calls |-> <<>>, steps |-> 0,
     before |-> {}]

\* One entry of a frame's record of the calls it has made (kept for the
\* properties; the program does not read it). status is "ok", or how the call
\* failed: "raised" to the caller, "reported" in the value returned, or "quiet",
\* a failure the value returned does not show. ref is the facility type of a
\* classification, the verdict of a fraud check, the facility id of a facility
\* write, the transaction hash of a payment or of a reward record.
Call(op, status, ref) == [op |-> op, status |-> status, ref |-> ref]

Logged(f, op, status, ref) == [f EXCEPT !.calls = Append(@, Call(op, status, ref))]

\* The calls that have returned (before, in a frame, are those that had returned
\* when it began; like calls it is kept for the properties only)
Returned == {q \in Runs : run[q].pc = "done"}

\* The verdict a fraud check result stands for
Verdict(fr) ==
    IF fr.is_fraud THEN "DUPLICATE"
    ELSE IF Truthy(fr.existing_facility_id) THEN "UPDATE"
    ELSE "NEW"

VisionStatus(o) == IF o.kind \in {"bad_json", "error"} THEN "reported" ELSE "ok"

\* "refused" is the distributor finding the location hash verified already
PayStatus(outcome) ==
    CASE outcome = "confirmed" -> "ok"
      [] outcome = "not_configured" -> "quiet"
      [] outcome = "already_verified" -> "refused"
      [] OTHER -> "raised"

-----------------------------------------------------------------------------
(* agent/help2earn_agent.py: Help2EarnAgent.process_upload, await by await *)

\* Step 1, lines 70-83
AnalyzeStep(f, o) ==
    LET v == analyze_image(o)
        g == Logged([f EXCEPT !.vision_result = v], "analyze_image", VisionStatus(o),
                    v.facility_type)
    IN  IF ~v.is_valid
        THEN [g EXCEPT !.pc = "done", !.result = FailureResult("", v.condition)]
        ELSE [g EXCEPT !.pc = "fraud"]

\* A step 2 that goes on to the payment, leaving the facility write out
FraudStep_pay_first(f, facs, t, row) ==
    LET fr == check_fraud(facs, t, row)
        g == Logged([f EXCEPT !.fraud_result = fr], "check_fraud",
                    IF row = -1 THEN "quiet" ELSE "ok", Verdict(fr))
    IN  IF fr.is_fraud
        THEN [g EXCEPT !.pc = "done",
                       !.result = FailureResult("Duplicate submission: ", fr.reason)]
        ELSE [g EXCEPT !.pc = "pay"]

\* A step 2 that goes on to the facility write with a duplicate as well
FraudStep_keeps_duplicate(f, facs, t, row) ==
    LET fr == check_fraud(facs, t, row)
        g == Logged([f EXCEPT !.fraud_result = fr], "check_fraud",
                    IF row = -1 THEN "quiet" ELSE "ok", Verdict(fr))
    IN  [g EXCEPT !.pc = "persist"]

\* Step 2, lines 85-98
FraudStep(f, facs, t, row) ==
    LET fr == check_fraud(facs, t, row)
        g == Logged([f EXCEPT !.fraud_result = fr], "check_fraud",
                    IF row = -1 THEN "quiet" ELSE "ok", Verdict(fr))
    IN  IF fr.is_fraud
        THEN [g EXCEPT !.pc = "done",
                       !.result = FailureResult("Duplicate submission: ", fr.reason)]
        ELSE [g EXCEPT !.pc = "persist"]

\* The dict handed to update_facility, lines 104-107
UpdateData(f) ==
    [image_url |-> OrElse(f.image_url, "pending"), ai_analysis |-> JsonDumps(f.vision_result)]

\* The dict handed to save_facility, lines 111-118
FacilityData(f) ==
    [type |-> f.vision_result.facility_type, latitude |-> f.lat,
     image_url |-> OrElse(f.image_url, "pending"),
     ai_analysis |-> JsonDumps(f.vision_result), contributor_address |-> f.wallet]

\* Step 3, lines 100-120: the frame after the facility write. update_facility
\* reports a failure by its return value, which is not looked at; save_facility
\* raises, which ends the call in the handler of lines 148-153.
PersistFrame(f, facs, ok) ==
    LET existing == f.fraud_result.existing_facility_id
    IN  IF Truthy(existing)
        THEN [Logged(f, "update_facility", IF ok THEN "ok" ELSE "reported", existing)
                EXCEPT !.facility_id = existing, !.pc = "pay"]
        ELSE IF ok
        THEN [Logged(f, "save_facility", "ok", NewFacilityId(facs))
                EXCEPT !.facility_id = NewFacilityId(facs), !.pc = "pay"]
        ELSE [Logged(f, "save_facility", "raised", None)
                EXCEPT !.pc = "done",
                       !.result = FailureResult("Processing error: ", "db error")]

\* Step 3: the store after the facility write
PersistStore(f, facs, t, mock, ok, sid) ==
    LET existing == f.fraud_result.existing_facility_id
    IN  IF Truthy(existing)
        THEN update_facility(facs, t, mock, existing, UpdateData(f), ok)
        ELSE IF ok THEN save_facility(facs, t, FacilityData(f), sid)
        ELSE facs

\* reward_amount = fraud_result.get("reward_amount", 50), line 95
RewardAmount(f) == f.fraud_result.reward_amount

\* A step 4 without the try/except around send_reward: the error raised ends
\* the call in the handler of lines 148-153
PayStep_no_except(f, ch, outcome) ==
    LET r == send_reward(ch, outcome)
        g == Logged(f, "send_reward", PayStatus(outcome), r.tx)
    IN  IF r.raised
        THEN [g EXCEPT !.pc = "done",
                       !.result = FailureResult("Processing error: ", "payment error")]
        ELSE [g EXCEPT !.tx_hash = r.tx, !.pc = "record"]

\* Step 4, lines 122-129
PayStep(f, ch, outcome) ==
    LET r == send_reward(ch, outcome)
    IN  [Logged(f, "send_reward", PayStatus(outcome), r.tx) EXCEPT
            !.tx_hash = IF r.raised THEN None ELSE r.tx, !.pc = "record"]

\* The dict handed to save_reward, lines 132-137
RewardData(f) ==
    [wallet_address |-> f.wallet, facility_id |-> f.facility_id,
     amount |-> RewardAmount(f), tx_hash |-> f.tx_hash]

\* Lines 131-153: save_reward raises on a failed insert
RecordStep(f, ok) ==
    IF ok
    THEN [Logged(f, "save_reward", "ok", f.tx_hash) EXCEPT
            !.pc = "done",
            !.result = ResultDict(SuccessKeys, TRUE, f.facility_id,
                                  f.vision_result.facility_type, RewardAmount(f),
                                  f.tx_hash, <<None, None>>)]
    ELSE [Logged(f, "save_reward", "raised", None) EXCEPT
            !.pc = "done", !.result = FailureResult("Processing error: ", "db error")]

Start(r, s) ==
    /\ pipeline = "direct"
    /\ r = submitted + 1
    /\ run[r].pc = "idle"
    /\ submitted' = r
    /\ run' = [run EXCEPT ![r] = [IdleFrame EXCEPT !.pc = "vision", !.lat = s.lat,
                                                   !.wallet = s.wallet,
                                                   !.image_url = s.image_url,
                                                   !.before = Returned]]
    /\ UNCHANGED <<probe, pipeline, mock_database, now, facilities, rewards, chain,
                   ctx, completed_tools, tool_results, agent_state>>

Analyze(r, o) ==
    /\ pipeline = "direct"
    /\ run[r].pc = "vision"
    /\ run' = [run EXCEPT ![r] = AnalyzeStep(@, o)]
    /\ UNCHANGED <<probe, pipeline, mock_database, now, facilities, rewards, chain, submitted,
                   ctx, completed_tools, tool_results, agent_state>>

FraudCheck(r, row) ==
    /\ pipeline = "direct"
    /\ run[r].pc = "fraud"
    /\ row \in FraudLookups(facilities, mock_database, run[r].lat,
                            run[r].vision_result.facility_type)
    /\ run' = [run EXCEPT ![r] = FraudStep(@, facilities, now, row)]
    /\ UNCHANGED <<probe, pipeline, mock_database, now, facilities, rewards, chain, submitted,
                   ctx, completed_tools, tool_results, agent_state>>

Persist(r, ok) ==
    /\ pipeline = "direct"
    /\ run[r].pc = "persist"
    /\ ok \in DbOutcomes(mock_database)
    /\ facilities' = PersistStore(run[r], facilities, now, mock_database, ok, r)
    /\ run' = [run EXCEPT ![r] = PersistFrame(@, facilities, ok)]
    /\ UNCHANGED <<probe, pipeline, mock_database, now, rewards, chain, submitted,
                   ctx, completed_tools, tool_results, agent_state>>

Pay(r, outcome) ==
    /\ pipeline = "direct"
    /\ run[r].pc = "pay"
    /\ chain' = Transfer(chain, outcome, run[r].wallet, RewardAmount(run[r]), "direct_mint",
                         None, r)
    /\ run' = [run EXCEPT ![r] = PayStep(@, chain, outcome)]
    /\ UNCHANGED <<probe, pipeline, mock_database, now, facilities, rewards, submitted,
                   ctx, completed_tools, tool_results, agent_state>>

Record(r, ok) ==
    /\ pipeline = "direct"
    /\ run[r].pc = "record"
    /\ ok \in DbOutcomes(mock_database)
    /\ rewards' = IF ok THEN save_reward(rewards, now, RewardData(run[r]), r) ELSE rewards
    /\ run' = [run EXCEPT ![r] = RecordStep(@, ok)]
    /\ UNCHANGED <<probe, pipeline, mock_database, now, facilities, chain, submitted,
                   ctx, completed_tools, tool_results, agent_state>>

\* The awaits of process_upload at which the event loop can suspend the run:
\* the queries of the asyncpg pool. analyze_image and send_reward call their
\* services synchronously, and the mock connection never suspends.
Suspended(f) ==
    /\ ~mock_database
    /\ f.pc \in {"fraud", "persist", "pay", "record"}

\* The caller cancels the task of run r. asyncio.CancelledError is raised at
\* the await the run is suspended at: in check_existing, in the facility write
\* before the statement is sent ("persist") or while its connection is given
\* back ("pay"), or in save_reward ("record"). It is a BaseException, which
\* neither `except Exception` of process_upload catches, so that the run ends
\* there without a result.
Cancel(r) ==
    /\ pipeline = "direct"
    /\ Suspended(run[r])
    /\ run' = [run EXCEPT ![r].pc = "cancelled"]
    /\ UNCHANGED <<probe, pipeline, mock_database, now, facilities, rewards, chain,
                   submitted, ctx, completed_tools, tool_results, agent_state>>

\* Step 1 with the calls of model.generate_content that analyze_image makes
\* written to the record of the run: the rate-limited attempts, then the last
AnalyzeRetrying(r, o, limited) ==
    LET n == GenerateAttempts(limited)
        last == Answered(o, limited)
        attempts == [i \in 1..n |->
                        Call("generate_content",
                             IF i < n \/ last.kind = "error" THEN "raised" ELSE "ok", None)]
    IN  /\ pipeline = "direct"
        /\ run[r].pc = "vision"
        /\ run' = [run EXCEPT ![r] = AnalyzeStep([@ EXCEPT !.calls = @ \o attempts], last)]
        /\ UNCHANGED <<probe, pipeline, mock_database, now, facilities, rewards, chain,
                       submitted, ctx, completed_tools, tool_results, agent_state>>

\* Time passes between requests. The jumps are of days, and every await of a
\* request is bounded by a timeout of minutes, so no request spans one. The
\* clock starts with the first request and is not followed past the last one.
Tick(t) ==
    /\ t > now
    /\ 0 < submitted /\ submitted < MaxSubmissions
    /\ \A r \in Runs : run[r].pc \in {"idle", "done"}
    /\ now' = t
    /\ UNCHANGED <<probe, pipeline, mock_database, facilities, rewards, chain, submitted, run,
                   ctx, completed_tools, tool_results, agent_state>>

-----------------------------------------------------------------------------
(* tools/*.py: what each workflow tool returns to the agent *)

Absent == [present |-> FALSE]

\* VisionAnalyzeTool.execute: the skill's dict; a failure to decode the image is
\* reported like a service error.
VisionTool(o) ==
    LET v == analyze_image(o)
    IN  [present |-> TRUE, is_valid |-> v.is_valid, facility_type |-> v.facility_type,
         condition |-> v.condition]

\* AntiFraudCheckTool.execute
FraudTool(facs, t, row) ==
    LET fr == check_fraud(facs, t, row)
    IN  [present |-> TRUE, is_fraud |-> fr.is_fraud, reward_amount |-> fr.reward_amount,
         reason |-> fr.reason, existing_facility_id |-> fr.existing_facility_id]

\* DatabaseSaveFacilityTool.execute, lines 80-104
SaveFacilityTool(facs, ok) ==
    IF ok THEN [present |-> TRUE, success |-> TRUE, facility_id |-> NewFacilityId(facs)]
    ELSE [present |-> TRUE, success |-> FALSE, facility_id |-> None]

\* distribute_reward_with_hash: without a distributor contract it is send_reward
\* itself; otherwise the location hash is found verified already, or the
\* distributor transaction is confirmed, or an error raised.
DistributorOutcomes == {"no_distributor", "already_verified", "confirmed", "failed"}

\* The outcomes the chain allows for a location hash: a transaction for a hash
\* that is verified is not sent, lines 289-296
DistributorAnswers(ch, location_hash) ==
    IF Verified(ch, location_hash)
    THEN DistributorOutcomes \ {"confirmed"}
    ELSE DistributorOutcomes \ {"already_verified"}

\* BlockchainRewardTool.execute, lines 81-116: the payment attempts made, in
\* order, for the outcome d of the distributor and m1, m2 of the direct mints.
RewardAttempts(d, m1, m2) ==
    IF d = "confirmed" THEN <<[method |-> "distributor", outcome |-> "confirmed"]>>
    ELSE LET first == IF d = "no_distributor"
                      THEN [method |-> "direct_mint", outcome |-> m1]
                      ELSE [method |-> "distributor", outcome |-> d]
         IN  IF first.outcome \in {"failed", "already_verified"}
             THEN <<first, [method |-> "direct_mint", outcome |-> m2]>>
             ELSE <<first>>

\* The record of these attempts: distributeReward is the distributor path,
\* send_reward the direct mint
AttemptCalls(ch, attempts) ==
    [i \in 1..Len(attempts) |->
        Call(IF attempts[i].method = "distributor" THEN "distributeReward" ELSE "send_reward",
             PayStatus(attempts[i].outcome),
             IF attempts[i].outcome = "confirmed" THEN TxHashes[Len(ch) + 1]
             ELSE IF attempts[i].outcome = "not_configured" THEN ZeroHash
             ELSE None)]

\* The dict the tool returns after these attempts
RewardTool(ch, attempts) ==
    LET last == attempts[Len(attempts)]
    IN  IF last.outcome = "failed"
        THEN [present |-> TRUE, success |-> FALSE, tx_hash |-> None]
        ELSE [present |-> TRUE, success |-> TRUE,
              tx_hash |-> IF last.method = "distributor" THEN TxHashes[Len(ch) + 1]
                          ELSE send_reward(ch, last.outcome).tx]

\* DatabaseSaveRewardTool.execute, lines 305-327
SaveRewardTool(ok) == [present |-> TRUE, success |-> ok]

-----------------------------------------------------------------------------
(* tools/blockchain_tool.py: BlockchainRewardTool.execute, called outside a run *)

\* The transfers the chain is followed up to
MaxTransfers == 2

\* What one transaction of send_reward or distribute_reward_with_hash can
\* meet, told apart by how far it got: an error before send_raw_transaction
\* ("not_sent"), a transaction sent whose receipt has status 0 ("reverted") or
\* does not come within the 120 s of wait_for_transaction_receipt
\* ("timed_out"), or one sent and confirmed.
SendOutcomes == {"not_configured", "confirmed", "not_sent", "reverted", "timed_out"}
DistributorSendOutcomes ==
    {"no_distributor", "already_verified", "confirmed", "not_sent", "reverted", "timed_out"}

\* send_raw_transaction was called and returned a hash
Broadcast(o) == o \in {"confirmed", "reverted", "timed_out"}

\* What the caller of the function sees: each of the three errors is an
\* exception raised again by the handler of lines 256-258 and 329-331
Raised(o) == IF o \in {"not_sent", "reverted", "timed_out"} THEN "failed" ELSE o

\* The outcomes of the attempts the tool makes, in their order
SentBy(d, m1, m2) ==
    LET first == IF d = "no_distributor" THEN m1 ELSE d
    IN  IF Len(RewardAttempts(Raised(d), Raised(m1), Raised(m2))) = 2
        THEN <<first, m2>> ELSE <<first>>

\* One execution of the tool for a ramp at position 0
ProbeRewardTool(wallet, amount, d, m1, m2) ==
    LET location_hash == generate_location_hash(0, "ramp")
        attempts == RewardAttempts(Raised(d), Raised(m1), Raised(m2))
        last == attempts[Len(attempts)]
        sent == SentBy(d, m1, m2)
    IN  /\ pipeline = "reward"
        /\ Len(chain) < MaxTransfers
        /\ Raised(d) \in DistributorAnswers(chain, location_hash)
        /\ chain' = Transfer(chain, last.outcome, wallet, amount, last.method,
                             IF last.method = "distributor" THEN location_hash ELSE None, 0)
        /\ probe' = [op |-> "blockchain_reward", wallet |-> wallet, amount |-> amount,
                      sent |-> sent,
                      broadcasts |-> Cardinality({i \in 1..Len(sent) : Broadcast(sent[i])}),
                      result |-> RewardTool(chain, attempts)]
        /\ UNCHANGED <<pipeline, mock_database, now, facilities, rewards, submitted,
                       run, ctx, completed_tools, tool_results, agent_state>>

-----------------------------------------------------------------------------
(* agent/spoon_agent.py: Help2EarnReactAgent *)

\* dict.get(key, default) on a tool result that may be missing
GetIsValid(d) == IF d.present THEN d.is_valid ELSE FALSE
GetFacilityType(d) == IF d.present THEN d.facility_type ELSE None
GetIsFraud(d) == IF d.present THEN d.is_fraud ELSE FALSE
GetRewardAmount(d) == IF d.present THEN d.reward_amount ELSE DefaultRewardAmount
GetSuccess(d) == IF d.present THEN d.success ELSE FALSE
GetFacilityId(d) == IF d.present THEN d.facility_id ELSE None
GetTxHash(d) == IF d.present THEN d.tx_hash ELSE None

Completed(done, name) == \E i \in 1..Len(done) : done[i] = name

NoCall == [name |-> None]

\* _get_next_tool_call, lines 30-125: the next tool and its arguments, or NoCall
\* (Python's None) when the workflow stops.
GetNextToolCall(done, results, c) ==
    LET vision_result == results["vision_analyze"]
        fraud_result == results["anti_fraud_check"]
        db_result == results["database_save_facility"]
        blockchain_result == results["blockchain_reward"]
    IN  IF ~Completed(done, "vision_analyze")
        THEN [name |-> "vision_analyze"]
        ELSE IF ~GetIsValid(vision_result) THEN NoCall
        ELSE IF ~Completed(done, "anti_fraud_check")
        THEN [name |-> "anti_fraud_check", latitude |-> c.lat,
              facility_type |-> GetFacilityType(vision_result)]
        ELSE IF GetIsFraud(fraud_result) THEN NoCall
        ELSE IF ~Completed(done, "database_save_facility")
        THEN [name |-> "database_save_facility",
              data |-> [type |-> GetFacilityType(vision_result), latitude |-> c.lat,
                        image_url |-> OrElse(c.image_url, ""),
                        ai_analysis |-> JsonDumpsDetails(vision_result),
                        contributor_address |-> c.wallet]]
        ELSE IF ~GetSuccess(db_result) THEN NoCall
        ELSE IF ~Completed(done, "blockchain_reward")
        THEN [name |-> "blockchain_reward", wallet |-> c.wallet,
              amount |-> GetRewardAmount(fraud_result),
              facility_type |-> GetFacilityType(vision_result), lat |-> c.lat]
        ELSE IF ~GetSuccess(blockchain_result) THEN NoCall
        ELSE IF ~Completed(done, "database_save_reward")
        THEN [name |-> "database_save_reward",
              data |-> [wallet_address |-> c.wallet,
                        facility_id |-> GetFacilityId(db_result),
                        amount |-> GetRewardAmount(fraud_result),
                        tx_hash |-> GetTxHash(blockchain_result)]]
        ELSE NoCall

\* _build_final_result, lines 201-215, read back by _parse_agent_result
BuildFinalResult(results) ==
    ResultDict(SuccessKeys, TRUE,
               GetFacilityId(results["database_save_facility"]),
               GetFacilityType(results["vision_analyze"]),
               GetRewardAmount(results["anti_fraud_check"]),
               GetTxHash(results["blockchain_reward"]), <<None, None>>)

NextCall == GetNextToolCall(completed_tools, tool_results, ctx)

\* The manual run loop of Help2EarnSpoonAgent.process_upload, line 467
InLoop(r) ==
    /\ pipeline = "react"
    /\ run[r].pc = "loop"
    /\ run[r].steps < MaxSteps
    /\ agent_state = "RUNNING"

\* execute_tool, lines 230-253, then the rest of step(): the tool is tracked as
\* completed, its result stored and the step's result built.
TrackedWith(r, name, result, status, ref, inner) ==
    /\ completed_tools' = Append(completed_tools, name)
    /\ tool_results' = [tool_results EXCEPT ![name] = result]
    /\ run' = [run EXCEPT ![r] =
                 [Logged([@ EXCEPT !.calls = @ \o inner], name, status, ref) EXCEPT
                    !.steps = @ + 1,
                    !.result = BuildFinalResult([tool_results EXCEPT ![name] = result])]]

\* The same for a tool that makes no recorded calls of its own
Tracked(r, name, result, status, ref) == TrackedWith(r, name, result, status, ref, <<>>)

\* process_upload, lines 416-461: the context is set, the agent cleared, the loop entered
SpoonStart(r, s) ==
    /\ pipeline = "react"
    /\ r = submitted + 1
    /\ \A q \in Runs : run[q].pc \in {"idle", "done"}
    /\ run[r].pc = "idle"
    /\ submitted' = r
    /\ ctx' = [lat |-> s.lat, wallet |-> s.wallet, image_url |-> s.image_url, set |-> TRUE]
    /\ completed_tools' = <<>>
    /\ tool_results' = NoToolResults
    /\ agent_state' = "RUNNING"
    /\ run' = [run EXCEPT ![r] = [IdleFrame EXCEPT !.pc = "loop", !.lat = s.lat,
                                                   !.wallet = s.wallet,
                                                   !.image_url = s.image_url,
                                                   !.before = Returned]]
    /\ UNCHANGED <<probe, pipeline, mock_database, now, facilities, rewards, chain>>

\* step() when no tool is left to call: the agent finishes, the loop ends, the
\* context is cleared and the last result returned (lines 155-159, 477-492)
SpoonFinish(r) ==
    /\ InLoop(r)
    /\ NextCall.name = None
    /\ agent_state' = "FINISHED"
    /\ ctx' = EmptyContext
    /\ run' = [run EXCEPT ![r] = [@ EXCEPT !.steps = @ + 1, !.pc = "done",
                                           !.result = BuildFinalResult(tool_results)]]
    /\ UNCHANGED <<probe, pipeline, mock_database, now, facilities, rewards, chain, submitted,
                   completed_tools, tool_results>>

StepVision(r, o) ==
    /\ InLoop(r)
    /\ NextCall.name = "vision_analyze"
    /\ Tracked(r, "vision_analyze", VisionTool(o), VisionStatus(o),
               VisionTool(o).facility_type)
    /\ UNCHANGED <<probe, pipeline, mock_database, now, facilities, rewards, chain, submitted,
                   ctx, agent_state>>

StepFraud(r, row) ==
    /\ InLoop(r)
    /\ NextCall.name = "anti_fraud_check"
    /\ row \in FraudLookups(facilities, mock_database, NextCall.latitude,
                            NextCall.facility_type)
    /\ Tracked(r, "anti_fraud_check", FraudTool(facilities, now, row),
               IF row = -1 THEN "quiet" ELSE "ok", Verdict(check_fraud(facilities, now, row)))
    /\ UNCHANGED <<probe, pipeline, mock_database, now, facilities, rewards, chain, submitted,
                   ctx, agent_state>>

StepSaveFacility(r, ok) ==
    /\ InLoop(r)
    /\ NextCall.name = "database_save_facility"
    /\ ok \in DbOutcomes(mock_database)
    /\ facilities' = IF ok THEN save_facility(facilities, now, NextCall.data, r)
                     ELSE facilities
    /\ Tracked(r, "database_save_facility", SaveFacilityTool(facilities, ok),
               IF ok THEN "ok" ELSE "reported", SaveFacilityTool(facilities, ok).facility_id)
    /\ UNCHANGED <<probe, pipeline, mock_database, now, rewards, chain, submitted,
                   ctx, agent_state>>

StepReward(r, d, m1, m2) ==
    /\ InLoop(r)
    /\ NextCall.name = "blockchain_reward"
    /\ LET location_hash == generate_location_hash(NextCall.lat, NextCall.facility_type)
           attempts == RewardAttempts(d, m1, m2)
           last == attempts[Len(attempts)]
       IN  /\ d \in DistributorAnswers(chain, location_hash)
           /\ chain' = Transfer(chain, last.outcome, NextCall.wallet, NextCall.amount,
                                last.method,
                                IF last.method = "distributor" THEN location_hash ELSE None,
                                r)
           /\ TrackedWith(r, "blockchain_reward", RewardTool(chain, attempts),
                          IF last.outcome = "failed" THEN "reported"
                          ELSE PayStatus(last.outcome),
                          RewardTool(chain, attempts).tx_hash,
                          AttemptCalls(chain, attempts))
    /\ UNCHANGED <<probe, pipeline, mock_database, now, facilities, rewards, submitted,
                   ctx, agent_state>>

StepSaveReward(r, ok) ==
    /\ InLoop(r)
    /\ NextCall.name = "database_save_reward"
    /\ ok \in DbOutcomes(mock_database)
    /\ rewards' = IF ok THEN save_reward(rewards, now, NextCall.data, r) ELSE rewards
    /\ Tracked(r, "database_save_reward", SaveRewardTool(ok),
               IF ok THEN "ok" ELSE "reported", NextCall.data.tx_hash)
    /\ UNCHANGED <<probe, pipeline, mock_database, now, facilities, chain, submitted,
                   ctx, agent_state>>

-----------------------------------------------------------------------------
(* agent/spoon_agent.py: calls of Help2EarnSpoonAgent.process_upload that overlap.
   The agent instance and _current_upload_context are one per process; a call
   that begins while another is suspended in a tool sets the context and clears
   the agent under it. *)

\* process_upload, lines 416-461, entered while another call is in its loop
SpoonStartDuring(r, s) ==
    /\ pipeline = "react"
    /\ r = submitted + 1
    /\ \E q \in Runs : run[q].pc = "loop"
    /\ run[r].pc = "idle"
    /\ submitted' = r
    /\ ctx' = [lat |-> s.lat, wallet |-> s.wallet, image_url |-> s.image_url, set |-> TRUE]
    /\ completed_tools' = <<>>
    /\ tool_results' = NoToolResults
    /\ agent_state' = "RUNNING"
    /\ run' = [run EXCEPT ![r] = [IdleFrame EXCEPT !.pc = "loop", !.lat = s.lat,
                                                   !.wallet = s.wallet,
                                                   !.image_url = s.image_url,
                                                   !.before = Returned]]
    /\ UNCHANGED <<probe, pipeline, mock_database, now, facilities, rewards, chain>>

\* _parse_agent_result(None), lines 552-568: the loop made no step
ParsedNone == ResultDict(SuccessKeys, FALSE, None, None, 0, None, <<None, None>>)

\* The while condition of line 467 found false by a call whose own step did
\* not finish the agent: another call finished it. The context is cleared and
\* the result of the call's last step returned (lines 487-490).
SpoonLoopExit(r) ==
    /\ pipeline = "react"
    /\ run[r].pc = "loop"
    /\ run[r].steps >= MaxSteps \/ agent_state # "RUNNING"
    /\ ctx' = EmptyContext
    /\ run' = [run EXCEPT ![r] = [@ EXCEPT !.pc = "done",
                                           !.result = IF run[r].steps = 0 THEN ParsedNone
                                                      ELSE @]]
    /\ UNCHANGED <<probe, pipeline, mock_database, now, facilities, rewards, chain, submitted,
                   completed_tools, tool_results, agent_state>>

-----------------------------------------------------------------------------
(* skills/anti_fraud/skill.py: check_user_submission_rate *)

max_hourly == 10
max_daily == 50

\* The facilities the wallet created less than the given number of hours ago:
\* total_seconds() < 3600 or 86400, created_at > NOW() - INTERVAL '1 hour' or '1 day'
CreatedSince(facs, t, wallet, hours) ==
    Cardinality({i \in 1..Len(facs) : /\ facs[i].contributor_address = wallet
                                      /\ t - facs[i].created_at < hours})

RateResult(allowed, reason, hourly_count, daily_count, wait_minutes) ==
    [allowed |-> allowed, reason |-> reason, hourly_count |-> hourly_count,
     daily_count |-> daily_count, wait_minutes |-> wait_minutes]

\* A limiter that tests the daily limit before the hourly one
check_user_submission_rate_daily_first(facs, t, wallet, ok) ==
    LET hourly_count == CreatedSince(facs, t, wallet, 1)
        daily_count == CreatedSince(facs, t, wallet, 24)
    IN  IF ~ok THEN RateResult(TRUE, "check_failed_default_allow", None, None, None)
        ELSE IF daily_count >= max_daily
        THEN RateResult(FALSE, "Daily limit reached (50/day)", hourly_count, daily_count, 1440)
        ELSE IF hourly_count >= max_hourly
        THEN RateResult(FALSE, "Hourly limit reached (10/hour)", hourly_count, daily_count, 60)
        ELSE RateResult(TRUE, "within_limits", hourly_count, daily_count, None)

\* A limiter whose except clause denies
check_user_submission_rate_fail_closed(facs, t, wallet, ok) ==
    LET hourly_count == CreatedSince(facs, t, wallet, 1)
        daily_count == CreatedSince(facs, t, wallet, 24)
    IN  IF ~ok THEN RateResult(FALSE, "check_failed", None, None, None)
        ELSE IF hourly_count >= max_hourly
        THEN RateResult(FALSE, "Hourly limit reached (10/hour)", hourly_count, daily_count, 60)
        ELSE IF daily_count >= max_daily
        THEN RateResult(FALSE, "Daily limit reached (50/day)", hourly_count, daily_count, 1440)
        ELSE RateResult(TRUE, "within_limits", hourly_count, daily_count, None)

\* ok = FALSE is a count query that raised: the dict of the except clause has
\* neither counts nor wait_minutes, the one of an allowed submission no wait_minutes
check_user_submission_rate(facs, t, wallet, ok) ==
    LET hourly_count == CreatedSince(facs, t, wallet, 1)
        daily_count == CreatedSince(facs, t, wallet, 24)
    IN  IF ~ok THEN RateResult(TRUE, "check_failed_default_allow", None, None, None)
        ELSE IF hourly_count >= max_hourly
        THEN RateResult(FALSE, "Hourly limit reached (10/hour)", hourly_count, daily_count, 60)
        ELSE IF daily_count >= max_daily
        THEN RateResult(FALSE, "Daily limit reached (50/day)", hourly_count, daily_count, 1440)
        ELSE RateResult(TRUE, "within_limits", hourly_count, daily_count, None)

\* A call of check_user_submission_rate
ProbeRate(wallet, ok) ==
    /\ pipeline = "rate"
    /\ ok \in DbOutcomes(mock_database)
    /\ probe' = [op |-> "check_user_submission_rate", wallet |-> wallet, ok |-> ok,
                  result |-> check_user_submission_rate(facilities, now, wallet, ok)]
    /\ UNCHANGED <<pipeline, mock_database, now, facilities, rewards, chain, submitted,
                   run, ctx, completed_tools, tool_results, agent_state>>

\* AntiFraudRateCheckTool.execute, lines 100-130: the dict of the skill is
\* returned as it is; the skill raises nothing for the tool's own except clause
ProbeRateTool(wallet, ok) ==
    /\ pipeline = "rate"
    /\ ok \in DbOutcomes(mock_database)
    /\ probe' = [op |-> "anti_fraud_rate_check", wallet |-> wallet, ok |-> ok,
                  result |-> check_user_submission_rate(facilities, now, wallet, ok)]
    /\ UNCHANGED <<pipeline, mock_database, now, facilities, rewards, chain, submitted,
                   run, ctx, completed_tools, tool_results, agent_state>>

-----------------------------------------------------------------------------
(* skills/database/skill.py: check_existing, called outside a run *)

\* The row the lookup of check_existing can come back with, 0 for none, -1 for a
\* failed query. The mock store takes the first stored facility of the type
\* nearer than 50 m; the SQL query takes one within 50 m, the last updated.
ExistingLookups(facs, mock, lat, type) ==
    LET nearer == {i \in 1..Len(facs) : /\ facs[i].type = type
                                        /\ Distance(facs[i].latitude, lat) < 50}
        within == {i \in 1..Len(facs) : /\ facs[i].type = type
                                        /\ Distance(facs[i].latitude, lat) <= 50}
        first == {i \in nearer : \A j \in nearer : i <= j}
        latest == {i \in within : \A j \in within : facs[i].updated_at >= facs[j].updated_at}
    IN  IF mock THEN (IF nearer = {} THEN {0} ELSE first)
        ELSE (IF within = {} THEN {0} ELSE latest) \cup {-1}

\* check_existing: the dict returned, or raised = TRUE for a failed query
check_existing(facs, t, row) ==
    IF row = -1
    THEN [raised |-> TRUE, exists |-> FALSE, facility_id |-> None, days_since_update |-> None]
    ELSE IF row = 0
    THEN [raised |-> FALSE, exists |-> FALSE, facility_id |-> None, days_since_update |-> None]
    ELSE [raised |-> FALSE, exists |-> TRUE, facility_id |-> facs[row].id,
          days_since_update |-> DaysSince(t, facs[row].updated_at)]

\* A call of check_fraud outside a run
ProbeFraud(lat, type, row) ==
    /\ pipeline = "fraud"
    /\ row \in FraudLookups(facilities, mock_database, lat, type)
    /\ probe' = [op |-> "check_fraud", lat |-> lat, type |-> type, row |-> row,
                  result |-> check_fraud(facilities, now, row)]
    /\ UNCHANGED <<pipeline, mock_database, now, facilities, rewards, chain, submitted,
                   run, ctx, completed_tools, tool_results, agent_state>>

\* A call of check_existing
ProbeExisting(lat, type, row) ==
    /\ pipeline = "fraud"
    /\ row \in ExistingLookups(facilities, mock_database, lat, type)
    /\ probe' = [op |-> "check_existing", lat |-> lat, type |-> type, row |-> row,
                  result |-> check_existing(facilities, now, row)]
    /\ UNCHANGED <<pipeline, mock_database, now, facilities, rewards, chain, submitted,
                   run, ctx, completed_tools, tool_results, agent_state>>

-----------------------------------------------------------------------------

Init ==
    /\ pipeline \in {"direct", "react"}
    /\ mock_database \in BOOLEAN
    /\ now = 0
    /\ facilities = <<>>
    /\ rewards = <<>>
    /\ chain = <<>>
    /\ submitted = 0
    /\ run = [r \in Runs |-> IdleFrame]
    /\ ctx = EmptyContext
    /\ completed_tools = <<>>
    /\ tool_results = NoToolResults
    /\ agent_state = "IDLE"
    /\ probe = NoProbe

Next ==
    \/ \E r \in Runs, s \in Submissions : Start(r, s)
    \/ \E r \in Runs, o \in VisionOutcomes : Analyze(r, o)
    \/ \E r \in Runs, row \in -1..MaxSubmissions : FraudCheck(r, row)
    \/ \E r \in Runs, ok \in BOOLEAN : Persist(r, ok)
    \/ \E r \in Runs, outcome \in PayOutcomes : Pay(r, outcome)
    \/ \E r \in Runs, ok \in BOOLEAN : Record(r, ok)
    \/ \E r \in Runs, s \in Submissions : SpoonStart(r, s)
    \/ \E r \in Runs, o \in VisionOutcomes : StepVision(r, o)
    \/ \E r \in Runs, row \in -1..MaxSubmissions : StepFraud(r, row)
    \/ \E r \in Runs, ok \in BOOLEAN : StepSaveFacility(r, ok)
    \/ \E r \in Runs, d \in DistributorOutcomes, m1 \in PayOutcomes, m2 \in PayOutcomes :
            StepReward(r, d, m1, m2)
    \/ \E r \in Runs, ok \in BOOLEAN : StepSaveReward(r, ok)
    \/ \E r \in Runs : SpoonFinish(r)
    \/ \E t \in TimePoints : Tick(t)

Spec == Init /\ [][Next]_vars

-----------------------------------------------------------------------------
(* check_fraud and check_existing on the stores the pipeline can leave behind *)

\* A facility row as save_facility inserts it
StoredRow(id, type, lat, updated_at) ==
    [id |-> id, type |-> type, latitude |-> lat, image_url |-> "pending",
     ai_analysis |-> "{vision: null}", contributor_address |-> "0xA",
     created_at |-> 0, updated_at |-> updated_at, sid |-> 0]

\* The stores of n facilities: ids in the order of insertion
StoresOf(n) ==
    {[i \in 1..n |-> StoredRow(FacilityIds[i], f[i].type, f[i].lat, f[i].updated_at)] :
        f \in [1..n -> [type : ClassifiedTypes, lat : StoredPositions,
                        updated_at : StoredUpdates]]}

Stores == UNION {StoresOf(n) : n \in 0..MaxStored}

InitFraud ==
    /\ pipeline = "fraud"
    /\ mock_database \in BOOLEAN
    /\ now \in ProbeTimes
    /\ facilities \in Stores
    /\ rewards = <<>>
    /\ chain = <<>>
    /\ submitted = 0
    /\ run = [r \in Runs |-> IdleFrame]
    /\ ctx = EmptyContext
    /\ completed_tools = <<>>
    /\ tool_results = NoToolResults
    /\ agent_state = "IDLE"
    /\ probe = NoProbe

NextFraud ==
    \/ \E lat \in ProbePositions, type \in ClassifiedTypes, row \in -1..MaxStored :
            ProbeFraud(lat, type, row)
    \/ \E lat \in ProbePositions, type \in ClassifiedTypes, row \in -1..MaxStored :
            ProbeExisting(lat, type, row)

SpecFraud == InitFraud /\ [][NextFraud]_vars

-----------------------------------------------------------------------------
(* Overlapping calls of Help2EarnSpoonAgent.process_upload *)

InitOverlap ==
    /\ pipeline = "react"
    /\ mock_database \in BOOLEAN
    /\ now = 0
    /\ facilities = <<>>
    /\ rewards = <<>>
    /\ chain = <<>>
    /\ submitted = 0
    /\ run = [r \in Runs |-> IdleFrame]
    /\ ctx = EmptyContext
    /\ completed_tools = <<>>
    /\ tool_results = NoToolResults
    /\ agent_state = "IDLE"
    /\ probe = NoProbe

\* The two calls that overlap are of different wallets at different positions;
\* the classifier answers or finds no facility; a payment attempt is confirmed
\* or fails, the direct mints of one payment alike.
OverlapSubmissions == {s \in Submissions : s.lat <= DUPLICATE_RADIUS_METERS}
OverlapVisionOutcomes == {o \in VisionOutcomes : o.kind \in {"valid", "invalid"}}
OverlapPayOutcomes == {"confirmed", "failed"}

NextOverlap ==
    \/ \E r \in Runs, s \in OverlapSubmissions : SpoonStart(r, s)
    \/ \E r \in Runs, s \in OverlapSubmissions : SpoonStartDuring(r, s)
    \/ \E r \in Runs, o \in OverlapVisionOutcomes : StepVision(r, o)
    \/ \E r \in Runs, row \in -1..MaxSubmissions : StepFraud(r, row)
    \/ \E r \in Runs, ok \in BOOLEAN : StepSaveFacility(r, ok)
    \/ \E r \in Runs, d \in OverlapPayOutcomes, m \in OverlapPayOutcomes :
            StepReward(r, d, m, m)
    \/ \E r \in Runs, ok \in BOOLEAN : StepSaveReward(r, ok)
    \/ \E r \in Runs : SpoonFinish(r)
    \/ \E r \in Runs : SpoonLoopExit(r)

SpecOverlap == InitOverlap /\ [][NextOverlap]_vars

-----------------------------------------------------------------------------
(* check_user_submission_rate on the stores a day of submissions can leave behind *)

\* A facility row by its wallet and hour of creation, far from every submission
CreatedRow(id, wallet, created_at, i) ==
    [id |-> id, type |-> "ramp", latitude |-> 1000 + 100 * i, image_url |-> "pending",
     ai_analysis |-> "{vision: null}", contributor_address |-> wallet,
     created_at |-> created_at, updated_at |-> created_at, sid |-> 0]

Repeat(n, x) == [i \in 1..n |-> x]

\* The numbers of facilities of wallet 0xA created less than an hour ago, exactly
\* an hour ago, 23 hours ago and exactly a day ago, and of another wallet's
HourCounts == {0, 9, 10, 11}
HourEdgeCounts == {0, 1}
DayCounts == {0, 39, 40, 48, 49}
DayEdgeCounts == {0, 1}
OtherCounts == {0, 2}

\* The store at hour t holding these numbers of rows, in the order of insertion
RateStore(c, t) ==
    LET rows == Repeat(c.dayedge, <<"0xA", 24>>) \o Repeat(c.day, <<"0xA", 23>>)
                    \o Repeat(c.houredge, <<"0xA", 1>>) \o Repeat(c.other, <<"0xB", 0>>)
                    \o Repeat(c.hour, <<"0xA", 0>>)
    IN  [i \in 1..Len(rows) |-> CreatedRow(FacilityIds[i], rows[i][1], t - rows[i][2], i)]

InitRate ==
    /\ pipeline = "rate"
    /\ mock_database \in BOOLEAN
    /\ now = 24
    /\ facilities \in {RateStore(c, 24) : c \in [hour : HourCounts, houredge : HourEdgeCounts,
                                                  day : DayCounts, dayedge : DayEdgeCounts,
                                                  other : OtherCounts]}
    /\ rewards = <<>>
    /\ chain = <<>>
    /\ submitted = 0
    /\ run = [r \in Runs |-> IdleFrame]
    /\ ctx = EmptyContext
    /\ completed_tools = <<>>
    /\ tool_results = NoToolResults
    /\ agent_state = "IDLE"
    /\ probe = NoProbe

NextRate ==
    \/ \E wallet \in {"0xA", "0xB"}, ok \in BOOLEAN : ProbeRate(wallet, ok)
    \/ \E wallet \in {"0xA", "0xB"}, ok \in BOOLEAN : ProbeRateTool(wallet, ok)

SpecRate == InitRate /\ [][NextRate]_vars

-----------------------------------------------------------------------------
(* The pipelines started on a store in which wallet 0xA has just created
   max_hourly facilities *)

InitLimit ==
    /\ pipeline \in {"direct", "react"}
    /\ mock_database \in BOOLEAN
    /\ now = 0
    /\ facilities = RateStore([hour |-> max_hourly, houredge |-> 0, day |-> 0,
                               dayedge |-> 0, other |-> 0], 0)
    /\ rewards = <<>>
    /\ chain = <<>>
    /\ submitted = 0
    /\ run = [r \in Runs |-> IdleFrame]
    /\ ctx = EmptyContext
    /\ completed_tools = <<>>
    /\ tool_results = NoToolResults
    /\ agent_state = "IDLE"
    /\ probe = NoProbe

NextLimit ==
    \/ \E r \in Runs, s \in Submissions : Start(r, s)
    \/ \E r \in Runs, o \in VisionOutcomes : Analyze(r, o)
    \/ \E r \in Runs, row \in -1..(max_hourly + MaxSubmissions) : FraudCheck(r, row)
    \/ \E r \in Runs, ok \in BOOLEAN : Persist(r, ok)
    \/ \E r \in Runs, outcome \in PayOutcomes : Pay(r, outcome)
    \/ \E r \in Runs, ok \in BOOLEAN : Record(r, ok)
    \/ \E r \in Runs, s \in Submissions : SpoonStart(r, s)
    \/ \E r \in Runs, o \in VisionOutcomes : StepVision(r, o)
    \/ \E r \in Runs, row \in -1..(max_hourly + MaxSubmissions) : StepFraud(r, row)
    \/ \E r \in Runs, ok \in BOOLEAN : StepSaveFacility(r, ok)
    \/ \E r \in Runs, d \in DistributorOutcomes, m1 \in PayOutcomes, m2 \in PayOutcomes :
            StepReward(r, d, m1, m2)
    \/ \E r \in Runs, ok \in BOOLEAN : StepSaveReward(r, ok)
    \/ \E r \in Runs : SpoonFinish(r)
    \/ \E t \in TimePoints : Tick(t)

SpecLimit == InitLimit /\ [][NextLimit]_vars

-----------------------------------------------------------------------------
(* Vocabulary of the properties *)

Finished(r) == run[r].pc = "done"

\* The positions in the record of calls of run r of the calls of the given operations
Made(r, ops) == {i \in 1..Len(run[r].calls) : run[r].calls[i].op \in ops}

ClassifyOps == {"analyze_image", "vision_analyze"}
VerdictOps == {"check_fraud", "anti_fraud_check"}
WriteOps == {"save_facility", "update_facility", "database_save_facility"}
PayOps == {"send_reward", "blockchain_reward"}
RecordOps == {"save_reward", "database_save_reward"}

\* Some call of run r of one of the operations ended with the status
Ended(r, ops, status) == \E i \in Made(r, ops) : run[r].calls[i].status = status

\* Some call of run r of one of the operations failed, however it showed
Failed(r, ops) == \E i \in Made(r, ops) : run[r].calls[i].status # "ok"

\* The verdict run r got from the fraud check, None before the check
VerdictOf(r) ==
    IF Made(r, VerdictOps) = {} THEN None
    ELSE run[r].calls[CHOOSE i \in Made(r, VerdictOps) : TRUE].ref

\* The facility type the classifier gave run r, None without one
TypeOf(r) ==
    IF Made(r, ClassifyOps) = {} THEN None
    ELSE run[r].calls[CHOOSE i \in Made(r, ClassifyOps) : TRUE].ref

\* The rows run r inserted
FacilitiesOf(r) == {i \in 1..Len(facilities) : facilities[i].sid = r}
RewardsOf(r) == {i \in 1..Len(rewards) : rewards[i].sid = r}

\* A transfer confirmed on chain for run r under the hash tx
Confirmed(r, tx) == \E k \in 1..Len(chain) : chain[k].sid = r /\ chain[k].tx = tx

\* How the caller reads a returned dict: success is DONE; of the failures only
\* those of the exception handlers ("Processing error: ...") differ from a
\* rejection ("<condition>", "Duplicate submission: ...") by their reason.
Outcome(res) ==
    IF res.success THEN "DONE"
    ELSE IF res.reason[1] = "Processing error: " THEN "FAILED"
    ELSE "REJECTED"

-----------------------------------------------------------------------------
(* C1 *)

\* What C1 promises of a finished run r
PaymentFailureAbsorbed(r) ==
    /\ run[r].result.success
    /\ "tx_hash" \in run[r].result.keys
    /\ run[r].result.tx_hash = None
    /\ \E i \in 1..Len(facilities) : facilities[i].id = run[r].facility_id
    /\ Cardinality(RewardsOf(r)) = 1
    /\ \A i \in RewardsOf(r) : rewards[i].tx_hash = None

PaymentFailedAfterWrite(r) ==
    /\ pipeline = "direct"
    /\ Finished(r)
    /\ Ended(r, WriteOps, "ok")
    /\ Ended(r, PayOps, "raised")

-----------------------------------------------------------------------------
(* C2 *)

\* C2: a run whose facility write failed (save_facility or update_facility, or
\* the save tool of the ReAct workflow) never calls the payment, never calls
\* save_reward, and ends in failure.
C2_WriteFailureStopsRun ==
    \A r \in Runs :
        Failed(r, WriteOps) =>
            /\ Made(r, PayOps) = {}
            /\ Made(r, RecordOps) = {}
            /\ Finished(r) => ~run[r].result.success

-----------------------------------------------------------------------------
(* C3 *)

-----------------------------------------------------------------------------
(* C4 *)

\* C4: in the ReAct workflow, a finished run whose database_save_facility
\* succeeded has executed database_save_reward exactly once, whether
\* blockchain_reward succeeded or not, with a null tx_hash when it did not.
C4_RewardRecordAfterAnyPayment ==
    \A r \in Runs :
        (pipeline = "react" /\ Finished(r) /\ Ended(r, {"database_save_facility"}, "ok")) =>
            /\ Cardinality(Made(r, {"database_save_reward"})) = 1
            /\ Failed(r, {"blockchain_reward"}) =>
                    \A i \in Made(r, {"database_save_reward"}) : run[r].calls[i].ref = None

-----------------------------------------------------------------------------
(* C5 *)

\* C5: one call of Help2EarnAgent.process_upload inserts at most one facility
\* and at most one reward record, whatever its steps meet and whatever other
\* calls are interleaved with it.
C5_AtMostOneFacilityAndReward ==
    pipeline = "direct" =>
        \A r \in Runs :
            /\ Cardinality(FacilitiesOf(r)) <= 1
            /\ Cardinality(RewardsOf(r)) <= 1

\* Two interleaved calls have each inserted a facility and a reward record
C5_Witness ==
    /\ pipeline = "direct"
    /\ \E r, q \in Runs :
        /\ r < q
        /\ r \notin run[q].before
        /\ Cardinality(FacilitiesOf(r)) = 1 /\ Cardinality(RewardsOf(r)) = 1
        /\ Cardinality(FacilitiesOf(q)) = 1 /\ Cardinality(RewardsOf(q)) = 1

-----------------------------------------------------------------------------
(* C6 *)

\* Run q replays the submission of run r, which had returned in success with
\* its facility written when q began
Replays(q, r) ==
    /\ r \in run[q].before
    /\ run[r].result.success
    /\ Ended(r, WriteOps, "ok")
    /\ run[q].lat = run[r].lat
    /\ run[q].wallet = run[r].wallet
    /\ run[q].image_url = run[r].image_url
    /\ TypeOf(r) # None
    /\ TypeOf(q) = TypeOf(r)

\* C6: a run that replays a submission whose first run succeeded and stored
\* its facility gets the verdict UPDATE or DUPLICATE and inserts no facility.
\* Stated for the replays whose fraud lookup answered: a lookup that fails is
\* answered NEW by check_fraud (lines 180-187), whatever is stored.
C6_ReplayCreatesNoSecondFacility ==
    \A q, r \in Runs :
        (Replays(q, r) /\ Ended(q, VerdictOps, "ok")) =>
            /\ VerdictOf(q) \in {"UPDATE", "DUPLICATE"}
            /\ FacilitiesOf(q) = {}

-----------------------------------------------------------------------------
(* C7 *)

\* C7: a run whose classification service errored (error raised by the call,
\* unparsable answer) ends FAILED, not REJECTED.
C7_ClassifierErrorEndsFailed ==
    \A r \in Runs :
        (Finished(r) /\ Failed(r, ClassifyOps)) => Outcome(run[r].result) = "FAILED"

-----------------------------------------------------------------------------
(* C8 *)

\* C8: a call of Help2EarnAgent.process_upload that got the verdict DUPLICATE
\* ends REJECTED, and its result holds the reason and the id of the existing
\* facility.
C8_DuplicateResultNamesFacility ==
    \A r \in Runs :
        (pipeline = "direct" /\ Finished(r) /\ VerdictOf(r) = "DUPLICATE") =>
            /\ Outcome(run[r].result) = "REJECTED"
            /\ {"reason", "facility_id"} \subseteq run[r].result.keys
            /\ run[r].result.facility_id = run[r].fraud_result.existing_facility_id

-----------------------------------------------------------------------------
(* C9 *)

\* C9: a run inserts a facility only on the verdict NEW; on the verdict UPDATE
\* it inserts none, and the facility id it returns and rewards is that of a
\* facility that existed before.
C9_UpdateCreatesNoFacility ==
    \A r \in Runs :
        /\ FacilitiesOf(r) # {} => VerdictOf(r) = "NEW"
        /\ (VerdictOf(r) = "UPDATE" /\ Finished(r) /\ run[r].result.success) =>
                /\ \E i \in 1..Len(facilities) :
                        facilities[i].id = run[r].result.facility_id /\ facilities[i].sid # r
                /\ \A k \in RewardsOf(r) :
                        rewards[k].facility_id = run[r].result.facility_id

-----------------------------------------------------------------------------
(* C10 *)

\* C10: in Help2EarnAgent.process_upload a reward record, and the result
\* returned, hold a transaction hash other than null only when a transfer of
\* that run was confirmed on chain.
C10_HashOnlyWhenConfirmed ==
    pipeline = "direct" =>
        /\ \A i \in 1..Len(rewards) :
                rewards[i].tx_hash # None => Confirmed(rewards[i].sid, rewards[i].tx_hash)
        /\ \A r \in Runs :
                (Finished(r) /\ run[r].result.success /\ run[r].result.tx_hash # None) =>
                    Confirmed(r, run[r].result.tx_hash)

-----------------------------------------------------------------------------
(* C11 *)

PrimaryPath == {"distributeReward"}
FallbackPath == {"send_reward"}

\* C11: a run attempts the distributor path first and the direct mint only
\* after the distributor attempt of that run failed; neither path is attempted
\* more than once in a run; when every attempt failed the run returns a null
\* tx_hash.
C11_PrimaryThenOneFallback ==
    \A r \in Runs :
        /\ Cardinality(Made(r, PrimaryPath)) <= 1
        /\ Cardinality(Made(r, FallbackPath)) <= 1
        /\ \A i \in Made(r, FallbackPath) :
                \E j \in Made(r, PrimaryPath) : j < i /\ run[r].calls[j].status # "ok"
        /\ ( /\ Finished(r)
             /\ Made(r, PrimaryPath \cup FallbackPath) # {}
             /\ \A i \in Made(r, PrimaryPath \cup FallbackPath) :
                    run[r].calls[i].status \in {"raised", "refused"} )
                => run[r].result.tx_hash = None

-----------------------------------------------------------------------------
(* C12 *)

\* C12: a run whose distributor attempt found the location hash of the
\* submission verified already transfers no tokens.
C12_VerifiedHashTransfersNothing ==
    \A r \in Runs :
        Ended(r, PrimaryPath, "refused") =>
            \A k \in 1..Len(chain) : chain[k].sid # r

-----------------------------------------------------------------------------
(* Vocabulary of the properties of a single call *)

\* The stored facilities of the type asked about whose distance from the
\* position asked about satisfies the test
StoredAt(Test(_)) ==
    {i \in 1..Len(facilities) :
        /\ facilities[i].type = probe.type
        /\ Test(Abs(facilities[i].latitude - probe.lat))}

UpTo50(d) == d <= 50
Exactly50(d) == d = 50

\* The hours since the last update of the facility the lookup came back with
MatchedAge == now - facilities[probe.row].updated_at

-----------------------------------------------------------------------------
(* C13 *)

\* The facilities in the store before the first run that the wallet created
\* less than an hour ago
CreatedBefore(wallet) ==
    {i \in 1..Len(facilities) : /\ facilities[i].sid = 0
                                /\ facilities[i].contributor_address = wallet
                                /\ now - facilities[i].created_at < 1}

\* C13: a run for a wallet that created 10 facilities within the last hour
\* calls no classifier and ends denied with the reason hourly_limit_exceeded.
C13_HourlyLimitDeniesBeforeClassifier ==
    \A r \in Runs :
        (run[r].pc # "idle" /\ Cardinality(CreatedBefore(run[r].wallet)) >= 10) =>
            /\ Made(r, ClassifyOps) = {}
            /\ Finished(r) =>
                    /\ ~run[r].result.success
                    /\ run[r].result.reason[2] = "hourly_limit_exceeded"

-----------------------------------------------------------------------------
(* C14 *)

\* C14: check_fraud called where no facility of the same type is stored within
\* 50 m returns a result that is not fraud, names no existing facility and
\* carries the reward of 50, whatever facilities of other types are stored there.
C14_NoSameTypeNearIsNew ==
    (probe.op = "check_fraud" /\ StoredAt(UpTo50) = {}) =>
        /\ probe.result.is_fraud = FALSE
        /\ probe.result.existing_facility_id = None
        /\ probe.result.reward_amount = 50

C14_Witness ==
    /\ probe.op = "check_fraud"
    /\ probe.row = 0
    /\ StoredAt(UpTo50) = {}
    /\ \E i \in 1..Len(facilities) :
            /\ facilities[i].type # probe.type
            /\ Abs(facilities[i].latitude - probe.lat) <= 50
    /\ probe.result.reason = "new_facility"

-----------------------------------------------------------------------------
(* C15 *)

\* C15: when the facility the lookup of check_fraud came back with was last
\* updated fewer than 15 days (360 hours) ago, the result is fraud with a
\* reward of 0 and names that facility.
C15_RecentMatchIsDuplicate ==
    (probe.op = "check_fraud" /\ probe.row > 0 /\ MatchedAge < 360) =>
        /\ probe.result.is_fraud = TRUE
        /\ probe.result.reward_amount = 0
        /\ probe.result.existing_facility_id = facilities[probe.row].id

C15_Witness ==
    /\ probe.op = "check_fraud"
    /\ probe.row > 0
    /\ MatchedAge = 359
    /\ probe.result.reason = "duplicate_within_15_days"

-----------------------------------------------------------------------------
(* C16 *)

\* C16: when the facility the lookup of check_fraud came back with was last
\* updated 15 days (360 hours) ago or more, the result is not fraud, carries
\* the reward of 25 and names that facility.
C16_OldMatchIsUpdate ==
    (probe.op = "check_fraud" /\ probe.row > 0 /\ MatchedAge >= 360) =>
        /\ probe.result.is_fraud = FALSE
        /\ probe.result.reward_amount = 25
        /\ probe.result.existing_facility_id = facilities[probe.row].id

C16_Witness ==
    /\ probe.op = "check_fraud"
    /\ probe.row > 0
    /\ MatchedAge = 360
    /\ probe.result.reason = "facility_update"

-----------------------------------------------------------------------------
(* C17 *)

\* C17: the facility a duplicate lookup comes back with is, of the stored
\* facilities of the type within 50 m, one nearest to the position asked about.
C17_NearestIsUsed ==
    (probe.op \in {"check_fraud", "check_existing"} /\ probe.row > 0) =>
        \A j \in StoredAt(UpTo50) :
            Abs(facilities[probe.row].latitude - probe.lat)
                <= Abs(facilities[j].latitude - probe.lat)

-----------------------------------------------------------------------------
(* C18 *)

\* C18: a duplicate lookup that was answered, asked about a position exactly
\* 50 m from a stored facility of the type, comes back with a facility.
C18_FiftyMetresIsWithin ==
    ( /\ probe.op \in {"check_fraud", "check_existing"}
      /\ probe.row # -1
      /\ StoredAt(Exactly50) # {} ) =>
        probe.row > 0

-----------------------------------------------------------------------------
(* C19 *)

FailOpenResult ==
    [is_fraud |-> FALSE, reward_amount |-> 50, reason |-> "check_failed_default_new",
     existing_facility_id |-> None]

\* C19: a run whose fraud check met a failed lookup got the verdict NEW with a
\* reward of 50, no existing facility and the reason check_failed_default_new,
\* and went on to the facility write.
C19_LookupFailureFailsOpen ==
    \A r \in Runs :
        Ended(r, VerdictOps, "quiet") =>
            /\ VerdictOf(r) = "NEW"
            /\ pipeline = "direct" =>
                    /\ run[r].fraud_result = FailOpenResult
                    /\ run[r].pc = "persist" \/ Made(r, WriteOps) # {}
            /\ pipeline = "react" =>
                    /\ run[r].pc = "loop" =>
                            /\ tool_results["anti_fraud_check"].present
                            /\ [k \in DOMAIN FailOpenResult |->
                                    tool_results["anti_fraud_check"][k]] = FailOpenResult
                    /\ \/ Made(r, WriteOps) # {}
                       \/ InLoop(r) /\ NextCall.name = "database_save_facility"

C19_Witness ==
    \E r \in Runs :
        /\ Ended(r, VerdictOps, "quiet")
        /\ Made(r, WriteOps) # {}
        /\ FacilitiesOf(r) # {}

-----------------------------------------------------------------------------
(* C20 *)

\* The number of stored facilities the wallet asked about created less than
\* the given number of hours ago
Created(hours) ==
    Cardinality({i \in 1..Len(facilities) :
                    /\ facilities[i].contributor_address = probe.wallet
                    /\ now - facilities[i].created_at < hours})

NamesHourly == probe.result.reason = "Hourly limit reached (10/hour)"
NamesDaily == probe.result.reason = "Daily limit reached (50/day)"

\* C20 as stated: check_user_submission_rate allows exactly when the wallet has
\* fewer than 10 creations in the last hour and fewer than 50 in the last day;
\* with 10 or more in the hour it names the hourly limit and a wait of 60
\* minutes, with 50 or more in the day the daily limit and a wait of 1440.
C20_AllowedExactlyBelowLimits ==
    probe.op = "check_user_submission_rate" =>
        /\ probe.result.allowed <=> (Created(1) < 10 /\ Created(24) < 50)
        /\ Created(1) >= 10 => (NamesHourly /\ probe.result.wait_minutes = 60)
        /\ Created(24) >= 50 => (NamesDaily /\ probe.result.wait_minutes = 1440)

\* C20 amended: when the counts were obtained, check_user_submission_rate
\* allows exactly when the wallet has fewer than 10 creations in the last hour
\* and fewer than 50 in the last day; with 10 or more in the hour it names the
\* hourly limit and a wait of 60 minutes, and with fewer than 10 in the hour and
\* 50 or more in the day the daily limit and a wait of 1440 minutes. When the
\* count query failed it allows with the reason check_failed_default_allow.
C20_AllowedExactlyBelowCountedLimits ==
    probe.op = "check_user_submission_rate" =>
        /\ probe.ok =>
                /\ probe.result.allowed <=> (Created(1) < 10 /\ Created(24) < 50)
                /\ Created(1) >= 10 => (NamesHourly /\ probe.result.wait_minutes = 60)
                /\ (Created(1) < 10 /\ Created(24) >= 50) =>
                        (NamesDaily /\ probe.result.wait_minutes = 1440)
        /\ ~probe.ok =>
                /\ probe.result.allowed
                /\ probe.result.reason = "check_failed_default_allow"

C20_Witness ==
    /\ probe.op = "check_user_submission_rate"
    /\ probe.ok
    /\ Created(1) >= 10
    /\ Created(24) >= 50
    /\ ~probe.result.allowed
    /\ NamesHourly

-----------------------------------------------------------------------------
(* The direct pipeline with the retry loop of the classifier followed call by call *)

InitVision ==
    /\ pipeline = "direct"
    /\ mock_database \in BOOLEAN
    /\ now = 0
    /\ facilities = <<>>
    /\ rewards = <<>>
    /\ chain = <<>>
    /\ submitted = 0
    /\ run = [r \in Runs |-> IdleFrame]
    /\ ctx = EmptyContext
    /\ completed_tools = <<>>
    /\ tool_results = NoToolResults
    /\ agent_state = "IDLE"
    /\ probe = NoProbe

NextVision ==
    \/ \E r \in Runs, s \in Submissions : Start(r, s)
    \/ \E r \in Runs, o \in VisionOutcomes, limited \in 0..MaxRateLimited :
            AnalyzeRetrying(r, o, limited)
    \/ \E r \in Runs, row \in -1..MaxSubmissions : FraudCheck(r, row)
    \/ \E r \in Runs, ok \in BOOLEAN : Persist(r, ok)
    \/ \E r \in Runs, outcome \in PayOutcomes : Pay(r, outcome)
    \/ \E r \in Runs, ok \in BOOLEAN : Record(r, ok)

SpecVision == InitVision /\ [][NextVision]_vars

-----------------------------------------------------------------------------
(* The direct pipeline under a caller that may cancel its requests *)

InitCancel ==
    /\ pipeline = "direct"
    /\ mock_database \in BOOLEAN
    /\ now = 0
    /\ facilities = <<>>
    /\ rewards = <<>>
    /\ chain = <<>>
    /\ submitted = 0
    /\ run = [r \in Runs |-> IdleFrame]
    /\ ctx = EmptyContext
    /\ completed_tools = <<>>
    /\ tool_results = NoToolResults
    /\ agent_state = "IDLE"
    /\ probe = NoProbe

NextCancel ==
    \/ \E r \in Runs, s \in Submissions : Start(r, s)
    \/ \E r \in Runs, o \in VisionOutcomes : Analyze(r, o)
    \/ \E r \in Runs, row \in -1..MaxSubmissions : FraudCheck(r, row)
    \/ \E r \in Runs, ok \in BOOLEAN : Persist(r, ok)
    \/ \E r \in Runs, outcome \in PayOutcomes : Pay(r, outcome)
    \/ \E r \in Runs, ok \in BOOLEAN : Record(r, ok)
    \/ \E r \in Runs : Cancel(r)

SpecCancel == InitCancel /\ [][NextCancel]_vars

-----------------------------------------------------------------------------
(* The direct pipeline, one call after the other, on a store that holds a ramp
   rewarded 15 days ago, with the lookup of the fraud check always answered *)

\* The hours at which the calls are made: 15 days after the facility was
\* written, an hour later, and a day less and exactly 15 days after that
WindowTimes == {360, 361, 719, 720}

InitWindow ==
    /\ pipeline = "direct"
    /\ mock_database \in BOOLEAN
    /\ now = 360
    /\ facilities = <<StoredRow(FacilityIds[1], "ramp", 0, 0)>>
    /\ rewards = <<[wallet_address |-> "0xA", facility_id |-> FacilityIds[1],
                    amount |-> NEW_FACILITY_REWARD, tx_hash |-> ZeroHash,
                    created_at |-> 0, sid |-> 0]>>
    /\ chain = <<>>
    /\ submitted = 0
    /\ run = [r \in Runs |-> IdleFrame]
    /\ ctx = EmptyContext
    /\ completed_tools = <<>>
    /\ tool_results = NoToolResults
    /\ agent_state = "IDLE"
    /\ probe = NoProbe

\* A call made when no other call is under way
StartAlone(r, s) ==
    /\ \A q \in Runs : run[q].pc \in {"idle", "done"}
    /\ Start(r, s)

NextWindow ==
    \/ \E r \in Runs, s \in Submissions : StartAlone(r, s)
    \/ \E r \in Runs, o \in VisionOutcomes : Analyze(r, o)
    \/ \E r \in Runs, row \in 0..(MaxSubmissions + 1) : FraudCheck(r, row)
    \/ \E r \in Runs, ok \in BOOLEAN : Persist(r, ok)
    \/ \E r \in Runs, outcome \in PayOutcomes : Pay(r, outcome)
    \/ \E r \in Runs, ok \in BOOLEAN : Record(r, ok)
    \/ \E t \in WindowTimes : Tick(t)

SpecWindow == InitWindow /\ [][NextWindow]_vars

-----------------------------------------------------------------------------
(* The reward tool executed on its own *)

InitReward ==
    /\ pipeline = "reward"
    /\ mock_database \in BOOLEAN
    /\ now = 0
    /\ facilities = <<>>
    /\ rewards = <<>>
    /\ chain = <<>>
    /\ submitted = 0
    /\ run = [r \in Runs |-> IdleFrame]
    /\ ctx = EmptyContext
    /\ completed_tools = <<>>
    /\ tool_results = NoToolResults
    /\ agent_state = "IDLE"
    /\ probe = NoProbe

NextReward ==
    \E wallet \in {"0xA", "0xB"},
       amount \in {NEW_FACILITY_REWARD, UPDATE_FACILITY_REWARD},
       d \in DistributorSendOutcomes, m1 \in SendOutcomes, m2 \in SendOutcomes :
        ProbeRewardTool(wallet, amount, d, m1, m2)

SpecReward == InitReward /\ [][NextReward]_vars

-----------------------------------------------------------------------------
(* C21 *)

Wallets == {s.wallet : s \in Submissions}
CreateOps == {"save_facility", "database_save_facility"}

\* C21: whenever the rate limiter's hourly or daily count of a wallet grows,
\* the step is a facility creation that succeeded, made by a run of that
\* wallet; no other step of a run (a rejection, a failure, an update, a
\* payment, a reward record) makes a count grow.
C21_CountsGrowOnlyByCreation ==
    [][\A w \in Wallets, h \in {1, 24} :
          CreatedSince(facilities', now', w, h) > CreatedSince(facilities, now, w, h) =>
              \E r \in Runs :
                  /\ run[r].wallet = w
                  /\ Len(run'[r].calls) > Len(run[r].calls)
                  /\ run'[r].calls[Len(run'[r].calls)].op \in CreateOps
                  /\ run'[r].calls[Len(run'[r].calls)].status = "ok"]_vars

C21_Witness ==
    \E r \in Runs :
        /\ Finished(r)
        /\ ~run[r].result.success
        /\ VerdictOf(r) = "DUPLICATE"
        /\ Len(facilities) > 0
        /\ CreatedSince(facilities, now, run[r].wallet, 24) = 0

-----------------------------------------------------------------------------
(* C22 *)

\* C22: a rate check whose count query failed, made of the skill or through
\* the tool, returns allowed = true with the reason check_failed_default_allow.
C22_RateCheckFailsOpen ==
    (probe.op \in {"check_user_submission_rate", "anti_fraud_rate_check"} /\ ~probe.ok) =>
        /\ probe.result.allowed = TRUE
        /\ probe.result.reason = "check_failed_default_allow"

C22_Witness ==
    /\ probe.op = "anti_fraud_rate_check"
    /\ ~probe.ok
    /\ CreatedSince(facilities, now, probe.wallet, 1) >= max_hourly
    /\ probe.result.allowed

-----------------------------------------------------------------------------
(* C23 *)

\* The place of a tool in the workflow, 0 for a call that is not a tool's
ToolIndex(op) ==
    IF op \in ToolNames THEN CHOOSE i \in 1..Len(WorkflowTools) : WorkflowTools[i] = op
    ELSE 0

\* The tools run r has executed, in the order of their execution
ToolsOf(f) == SelectSeq(f.calls, LAMBDA c : c.op \in ToolNames)

\* C23: the tools a ReAct run has executed are in the order of the workflow,
\* each later in it than the one before; a run that has returned executes no
\* further tool.
C23_ToolsInWorkflowOrder ==
    [][\A r \in Runs :
          /\ pipeline = "react" =>
                \A i \in 1..(Len(ToolsOf(run'[r])) - 1) :
                    ToolIndex(ToolsOf(run'[r])[i].op) < ToolIndex(ToolsOf(run'[r])[i + 1].op)
          /\ run[r].pc = "done" => run'[r].calls = run[r].calls]_vars

-----------------------------------------------------------------------------
(* C24 *)

\* Neither of the two calls had returned when the other began
Overlapping(r1, r2) ==
    /\ r1 # r2
    /\ run[r1].pc # "idle" /\ run[r2].pc # "idle"
    /\ r1 \notin run[r2].before
    /\ r2 \notin run[r1].before

\* Two calls of Help2EarnAgent.process_upload that overlapped, for the same
\* position and facility type, whose fraud lookups were both answered NEW and
\* that both returned success
BothNew(r1, r2) ==
    /\ pipeline = "direct"
    /\ Overlapping(r1, r2)
    /\ run[r1].lat = run[r2].lat
    /\ TypeOf(r1) = TypeOf(r2)
    /\ \A r \in {r1, r2} :
            /\ Finished(r)
            /\ run[r].result.success
            /\ Ended(r, VerdictOps, "ok")
            /\ VerdictOf(r) = "NEW"

\* C24: nothing serializes submissions: two overlapping runs for the same new
\* position and type that both got the verdict NEW have each created a
\* facility of their own and each been rewarded 50.
C24_OverlappingRunsBothRewarded ==
    \A r1, r2 \in Runs :
        BothNew(r1, r2) =>
            /\ FacilitiesOf(r1) # {} /\ FacilitiesOf(r2) # {}
            /\ FacilitiesOf(r1) \cap FacilitiesOf(r2) = {}
            /\ \A r \in {r1, r2} :
                    /\ run[r].result.reward_amount = 50
                    /\ RewardsOf(r) # {}
                    /\ \A i \in RewardsOf(r) : rewards[i].amount = 50

C24_Witness ==
    \E r1, r2 \in Runs :
        /\ BothNew(r1, r2)
        /\ Len(facilities) = 2
        /\ facilities[1].latitude = facilities[2].latitude
        /\ facilities[1].type = facilities[2].type
        /\ \A r \in {r1, r2} :
                \E k \in 1..Len(chain) : chain[k].sid = r /\ chain[k].amount = 50

-----------------------------------------------------------------------------
(* C25 *)

\* C25: the facility a run inserted has the position, the image and the wallet
\* of that run's submission, and the transfers and the reward records made for
\* a run go to that run's wallet.
C25_RunsUseOwnSubmission ==
    \A r \in Runs :
        /\ \A i \in FacilitiesOf(r) :
                /\ facilities[i].latitude = run[r].lat
                /\ facilities[i].contributor_address = run[r].wallet
                /\ facilities[i].created_at = facilities[i].updated_at =>
                        facilities[i].image_url \in {OrElse(run[r].image_url, "pending"),
                                                     OrElse(run[r].image_url, "")}
        /\ \A k \in 1..Len(chain) : chain[k].sid = r => chain[k].wallet = run[r].wallet
        /\ \A i \in RewardsOf(r) : rewards[i].wallet_address = run[r].wallet

-----------------------------------------------------------------------------
(* C27 *)

\* C27: no step removes a stored facility or changes its id, type, position,
\* contributor or created-at; the row at each place of the store stays the
\* same facility.
C27_FacilityIdentityKept ==
    [][/\ Len(facilities') >= Len(facilities)
       /\ \A i \in 1..Len(facilities) :
              /\ facilities'[i].id = facilities[i].id
              /\ facilities'[i].type = facilities[i].type
              /\ facilities'[i].latitude = facilities[i].latitude
              /\ facilities'[i].contributor_address = facilities[i].contributor_address
              /\ facilities'[i].created_at = facilities[i].created_at]_vars

\* A facility that an update has changed in image reference, payload and updated-at
C27_Witness ==
    \E r \in Runs, i \in 1..Len(facilities) :
        /\ Ended(r, {"update_facility"}, "ok")
        /\ facilities[i].sid # r
        /\ facilities[i].updated_at > facilities[i].created_at
        /\ facilities[i].image_url = OrElse(run[r].image_url, "pending")
        /\ facilities[i].ai_analysis = JsonDumps(run[r].vision_result)

-----------------------------------------------------------------------------
(* C28 *)

\* The reasons that are literals of the program
ReasonCodes == {"duplicate_within_15_days", "check_failed_default_new",
                "Unrecognized facility type", "Analysis failed - invalid response format"}

\* The reasons built from str(e) of a caught exception: "Processing error: ..."
\* of process_upload and "Analysis error: ..." of analyze_image
ExceptionText(reason) ==
    \/ reason[1] = "Processing error: "
    \/ reason[2] = "Analysis error: service unavailable"

\* C28: the reason of every result that is not a success is one of a fixed
\* set of codes and is not built from the text of an exception.
C28_ReasonsAreCodes ==
    \A r \in Runs :
        (Finished(r) /\ ~run[r].result.success) =>
            /\ run[r].result.reason[2] \in ReasonCodes
            /\ ~ExceptionText(run[r].result.reason)

-----------------------------------------------------------------------------
(* C30 *)

\* The reward of the verdict of run r: 50 for NEW, 25 for UPDATE, none otherwise
TierOf(r) ==
    IF VerdictOf(r) = "NEW" THEN NEW_FACILITY_REWARD
    ELSE IF VerdictOf(r) = "UPDATE" THEN UPDATE_FACILITY_REWARD
    ELSE -1

\* The amounts of run r: what the chain received for it, what its reward
\* records hold and what it returned
AmountsOf(r) ==
    {chain[k].amount : k \in {j \in 1..Len(chain) : chain[j].sid = r}}
        \cup {rewards[i].amount : i \in RewardsOf(r)}
        \cup {run[r].result.reward_amount}

\* C30: in every successful run the amount paid, the amount of the reward
\* record and the reward_amount returned all equal the tier of the verdict of
\* the fraud check, and no reward record holds an amount of 0 or less.
C30_AmountsEqualTier ==
    /\ \A r \in Runs :
            (Finished(r) /\ run[r].result.success) => AmountsOf(r) = {TierOf(r)}
    /\ \A i \in 1..Len(rewards) : rewards[i].amount > 0

-----------------------------------------------------------------------------
(* C29 *)

\* The calls a run makes of the classifier service
ServiceOps == {"generate_content"}

\* C29: within one run the call of the classifier, the query of the fraud
\* index, the write of the facility and the write of the reward record are
\* each attempted at most once.
C29_OneAttemptPerStage ==
    \A r \in Runs :
        /\ Cardinality(Made(r, ServiceOps)) <= 1
        /\ Cardinality(Made(r, ClassifyOps)) <= 1
        /\ Cardinality(Made(r, VerdictOps)) <= 1
        /\ Cardinality(Made(r, WriteOps)) <= 1
        /\ Cardinality(Made(r, RecordOps)) <= 1

-----------------------------------------------------------------------------
(* C26 *)

\* Run r was cancelled by its caller
Cancelled(r) == run[r].pc = "cancelled"

\* C26: a run cancelled after its facility write has completed has attempted
\* the payment and written the reward record when it stops.
C26_CancelledRunStillPaysAndRecords ==
    \A r \in Runs :
        (Cancelled(r) /\ Ended(r, WriteOps, "ok")) =>
            /\ Made(r, PayOps) # {}
            /\ Ended(r, RecordOps, "ok")
            /\ RewardsOf(r) # {}

-----------------------------------------------------------------------------
(* C39 *)

\* C39: the reward ledger is append-only. Every step keeps every reward
\* record there is, with its wallet, facility id, amount and transaction
\* hash, so that the ledger only grows.
C39_LedgerAppendOnly ==
    [][/\ Len(rewards') >= Len(rewards)
       /\ \A i \in 1..Len(rewards) : rewards'[i] = rewards[i]]_vars

\* Two runs have written their reward records, one after the other
C39_Witness ==
    /\ Len(rewards) = 2
    /\ rewards[1].sid # rewards[2].sid
    /\ \A r \in Runs : Finished(r) /\ Ended(r, RecordOps, "ok")

-----------------------------------------------------------------------------
(* C38 *)

\* Run r makes a call of update_facility in this step, and the call succeeds
UpdatesNow(r) ==
    /\ Len(run'[r].calls) = Len(run[r].calls) + 1
    /\ run'[r].calls[Len(run'[r].calls)].op = "update_facility"
    /\ run'[r].calls[Len(run'[r].calls)].status = "ok"

\* C38: after a successful call of update_facility for an UPDATE verdict the
\* facility named by the verdict holds the image reference and the payload of
\* the submission, and its updated-at is the time of the update, with either
\* store.
C38_UpdateStoresSubmission ==
    [][\A r \in Runs :
          UpdatesNow(r) =>
              \E i \in 1..Len(facilities') :
                  /\ facilities'[i].id = run[r].fraud_result.existing_facility_id
                  /\ facilities'[i].image_url = OrElse(run[r].image_url, "pending")
                  /\ facilities'[i].ai_analysis = JsonDumps(run[r].vision_result)
                  /\ facilities'[i].updated_at = now]_vars

-----------------------------------------------------------------------------
(* C35 *)

\* The workflow tools run r has executed with success
ToolsDone(r) == {run[r].calls[i].op : i \in {j \in Made(r, ToolNames) : run[r].calls[j].status = "ok"}}

\* C35: a ReAct run returns success = true only when all five workflow tools
\* completed with success; a run that stopped before that returns a
\* non-success and credits no reward amount.
C35_SuccessOnlyAfterAllTools ==
    \A r \in Runs :
        (pipeline = "react" /\ Finished(r)) =>
            /\ run[r].result.success => ToolsDone(r) = ToolNames
            /\ ToolsDone(r) # ToolNames =>
                    ~run[r].result.success /\ run[r].result.reward_amount = 0

-----------------------------------------------------------------------------
(* C36 *)

\* The tools of run r are the first of the workflow, one after the other:
\* none executed twice, none out of its place, none left out
InWorkflowSequence(r) ==
    \A i \in 1..Len(ToolsOf(run[r])) : ToolIndex(ToolsOf(run[r])[i].op) = i

\* C36: of two overlapping ReAct calls on one agent each executes every
\* workflow tool at most once and in the order of the workflow, without a step
\* left out, and writes at most one facility and one reward record.
C36_OverlapKeepsTracking ==
    pipeline = "react" =>
        \A r \in Runs :
            /\ InWorkflowSequence(r)
            /\ Cardinality(FacilitiesOf(r)) <= 1
            /\ Cardinality(RewardsOf(r)) <= 1

-----------------------------------------------------------------------------
(* C37 *)

\* The steps of a whole workflow: one for each tool and the one that finds
\* nothing left to call
WorkflowSteps == Len(WorkflowTools) + 1

\* C37: the step loop of a ReAct run takes at most 6 steps, 5 executions of
\* tools and the last check, and never more than 15.
C37_LoopEndsWithinSixSteps ==
    \A r \in Runs :
        /\ run[r].steps <= MaxSteps
        /\ pipeline = "react" => run[r].steps <= WorkflowSteps

-----------------------------------------------------------------------------
(* C32 *)

\* Run r was rejected: the classifier found its image invalid, or the verdict
\* of the fraud check was DUPLICATE
RejectedInvalid(r) ==
    /\ Made(r, ClassifyOps) # {}
    /\ Made(r, VerdictOps) = {}
    /\ ~run[r].vision_result.is_valid
RejectedDuplicate(r) == VerdictOf(r) = "DUPLICATE"

\* What run r did to the stores and the chain
EffectsOf(r) ==
    [calls |-> Made(r, WriteOps \cup PayOps \cup RecordOps \cup PrimaryPath \cup FallbackPath),
     facilities |-> FacilitiesOf(r),
     rewards |-> RewardsOf(r),
     transfers |-> {k \in 1..Len(chain) : chain[k].sid = r}]

\* C32: a run rejected for an invalid image or as a duplicate writes no
\* facility and no reward record and makes no call of the payer.
C32_RejectedRunChangesNothing ==
    \A r \in Runs :
        (Finished(r) /\ (RejectedInvalid(r) \/ RejectedDuplicate(r))) =>
            EffectsOf(r) = [calls |-> {}, facilities |-> {}, rewards |-> {}, transfers |-> {}]

\* A run rejected as a duplicate of the facility of the run before it, which
\* is stored as it was written, with the one reward record of that run
C32_Witness ==
    \E r \in Runs, q \in Runs, i \in 1..Len(facilities) :
        /\ pipeline = "direct"
        /\ Finished(r) /\ RejectedDuplicate(r) /\ ~run[r].result.success
        /\ run[r].fraud_result.existing_facility_id = facilities[i].id
        /\ facilities[i].sid = q /\ q # r
        /\ facilities[i].updated_at = facilities[i].created_at
        /\ Len(rewards) = 1 /\ Len(facilities) = 1

-----------------------------------------------------------------------------
(* C33 *)

\* The transfers of tokens made for run r
TransfersOf(r) == {k \in 1..Len(chain) : chain[k].sid = r}

\* C33: a call of Help2EarnAgent.process_upload that returns success = false
\* has transferred no tokens; a failed write of the reward record gives no
\* failure once tokens were sent.
C33_FailureMeansNoTransfer ==
    \A r \in Runs :
        (pipeline = "direct" /\ Finished(r) /\ ~run[r].result.success) =>
            TransfersOf(r) = {}

-----------------------------------------------------------------------------
(* C34 *)

\* C34: one execution of the blockchain_reward tool sends at most one
\* transaction: a transaction sent on the first path and not confirmed is not
\* followed by a transaction on the fallback path.
C34_OneBroadcastPerExecution ==
    probe.op = "blockchain_reward" => probe.broadcasts <= 1

-----------------------------------------------------------------------------
(* C31 *)

\* The hours of the freshness window
WindowHours == DUPLICATE_WINDOW_DAYS * 24

\* C31: for calls that do not overlap and a lookup that is answered, two
\* reward records that name the same facility were written at least 15 days
\* apart.
C31_RewardsOfFacilityWindowApart ==
    \A i \in 1..Len(rewards), j \in 1..Len(rewards) :
        (i < j /\ rewards[i].facility_id = rewards[j].facility_id) =>
            rewards[j].created_at - rewards[i].created_at >= WindowHours

====
